---- MODULE Spec2Model ----
(***************************************************************************)
(* A model of starlite's HTTP route handler                                 *)
(* (src/starlite/handlers/http_handlers.py): construction and registration *)
(* of a handler (method normalisation, default status code, validation of  *)
(* the handler function) and the resolution of the layered settings of its *)
(* ownership chain (response class, headers, cookies, lifecycle hooks, the *)
(* memoised response handler).                                             *)
(*                                                                         *)
(* Python values are encoded as follows.  A str is a sequence of one-      *)
(* character strings where its letter case matters (the HTTP method        *)
(* tokens) and a TLA+ string where it does not.  None is the empty tuple   *)
(* and an optional value x is the tuple <<x>>; a hook or a response class  *)
(* is the tuple <<attribute, i>> of the layer i that declares it.  The     *)
(* sentinel starlite.types.Empty is the tuple <<"Empty">>.                 *)
(***************************************************************************)
EXTENDS Naturals, Sequences, FiniteSets, TLC

VARIABLES
    args,                        \* the arguments of the last call of __init__ / __call__
    phase,                       \* "new"; "constructed" or "not_created" after __init__;
                                 \* "registered" or "failed" after __call__
    error,                       \* the exception the last call raised, "" when none
    http_methods,                \* self.http_methods
    status_code,                 \* self.status_code
    media_type,                  \* self.media_type
    signature,                   \* self.signature
    ownership_layers,            \* self.ownership_layers, outermost first, the handler last
    _resolved_before_request,    \* self._resolved_before_request
    _resolved_after_response,    \* self._resolved_after_response
    _resolved_response_handler,  \* self._resolved_response_handler
    epoch,                       \* how many layer attributes have been assigned so far
    returned,                    \* what the resolve_* / to_response calls made so far returned
    connections,                 \* the connections passing through the SessionMiddleware: each
                                 \* one's scope, the position of __call__ and its events
    _filter_cookies_cache,       \* the lists lru_cache keeps for _filter_cookies, by arguments
    storage,                     \* the entries of the server-side session store, by key
    clock,                       \* the time of the server-side session store
    config                       \* the configuration of the server-side backend

vars == <<args, phase, error, http_methods, status_code, media_type, signature,
          ownership_layers, _resolved_before_request, _resolved_after_response,
          _resolved_response_handler, epoch, returned, connections,
          _filter_cookies_cache, storage, clock, config>>

handlerVars == <<args, phase, error, http_methods, status_code, media_type, signature>>

resolveVars == <<ownership_layers, _resolved_before_request, _resolved_after_response,
                 _resolved_response_handler, epoch, returned>>

sessionVars == <<connections>>

cacheVars == <<_filter_cookies_cache>>

backendVars == <<storage, clock, config>>

(***************************************************************************)
(* Bounds of the model.                                                    *)
(***************************************************************************)
\* the longest http_method sequence given to __init__
MaxMethods == 2

\* the number of layers of the ownership chain, the handler included
NumLayers == 2

\* the number of layer attribute assignments and resolve_* / to_response calls explored
MaxSteps == 3

\* the number of connections passing through the SessionMiddleware
NumConnections == 2

\* the number of messages the wrapped application sends on one connection
MaxMessages == 3

\* the largest max_age of a backend configuration, in ticks of the store's clock
MaxAge == 2

\* the number of messages an application sends on each of several connections
MaxConcurrentMessages == 1

(***************************************************************************)
(* Values.                                                                 *)
(***************************************************************************)
None == <<>>

Empty == <<"Empty">>

HTTP_200_OK == 200

HTTP_201_CREATED == 201

HTTP_204_NO_CONTENT == 204

HTTP_304_NOT_MODIFIED == 304

\* the redirect status codes with 200 among them
RedirectStatusCodesWith200 == {200, 301, 302, 303, 307, 308}

REDIRECT_STATUS_CODES == {301, 302, 303, 307, 308}

ImproperlyConfiguredException == "ImproperlyConfiguredException"

ValidationException == "ValidationException"

GET == <<"G", "E", "T">>

POST == <<"P", "O", "S", "T">>

DELETE == <<"D", "E", "L", "E", "T", "E">>

PATCH == <<"P", "A", "T", "C", "H">>

PUT == <<"P", "U", "T">>

HEAD == <<"H", "E", "A", "D">>

\* the members of the enum HttpMethod the handlers module uses
HttpMethod == {GET, POST, DELETE, PATCH, PUT, HEAD}

HTTP_METHOD_NAMES == {m : m \in HttpMethod}

LowerCase == <<"a", "b", "c", "d", "e", "f", "g", "h", "i", "j", "k", "l", "m",
               "n", "o", "p", "q", "r", "s", "t", "u", "v", "w", "x", "y", "z">>

UpperCase == <<"A", "B", "C", "D", "E", "F", "G", "H", "I", "J", "K", "L", "M",
               "N", "O", "P", "Q", "R", "S", "T", "U", "V", "W", "X", "Y", "Z">>

\* str.upper(), one character
UpperChar(c) ==
    IF \E i \in DOMAIN LowerCase : LowerCase[i] = c
    THEN UpperCase[CHOOSE i \in DOMAIN LowerCase : LowerCase[i] = c]
    ELSE c

\* str.upper()
upper(s) == [i \in DOMAIN s |-> UpperChar(s[i])]

(***************************************************************************)
(* The http_method argument: one token, or a sequence of tokens.  A token  *)
(* is a str or a member of HttpMethod (itself a str), with its characters. *)
(***************************************************************************)
Str(chars) == [type |-> "str", value |-> chars]

Member(chars) == [type |-> "HttpMethod", value |-> chars]

One(token) == [form |-> "one", items |-> <<token>>]

Many(tokens) == [form |-> "seq", items |-> tokens]

\* the tokens the model passes: known names in upper, lower and mixed case, enum
\* members and an unknown name
MethodTokens ==
    {Str(GET), Str(<<"g", "e", "t">>), Member(POST), Str(<<"D", "e", "l", "e", "t", "e">>),
     Member(HEAD), Str(<<"f", "o", "o">>)}

SeqsUpTo(S, n) == UNION {[1..k -> S] : k \in 0..n}

\* the http_method arguments the model passes: a token, the empty str, a sequence
MethodArgs ==
    {One(t) : t \in MethodTokens \cup {Str(<<>>)}}
        \cup {Many(ts) : ts \in SeqsUpTo(MethodTokens, MaxMethods)}

\* the status_code argument: None, 0 or a status code
StatusArgs == {None, <<0>>, <<100>>, <<200>>, <<204>>, <<301>>, <<304>>}

MediaType_JSON == "application/json"

MediaType_HTML == "text/html"

MediaType_TEXT == "text/plain"

\* the media_type argument: None or a media type
MediaTypeArgs == {None, <<MediaType_JSON>>, <<MediaType_HTML>>}

\* bool(x) of an optional int
TruthyInt(x) == x # <<>> /\ x[1] # 0

\* bool(x) of the http_method argument: an empty str and an empty sequence are false
TruthyMethods(http_method) ==
    IF http_method.form = "one"
    THEN http_method.items[1].value # <<>>
    ELSE http_method.items # <<>>

RECURSIVE NormalizeLoop(_, _, _)
\* the loop of _normalize_http_method over http_methods from element i on, output
\* being the set built so far; it raises at the first unknown name
NormalizeLoop(http_methods_, i, output) ==
    IF i > Len(http_methods_)
    THEN [error |-> "", output |-> output]
    ELSE LET method == http_methods_[i]
             method_name == IF method.type = "HttpMethod"
                            THEN upper(method.value)
                            ELSE upper(method.value)
         IN  IF method_name \notin HTTP_METHOD_NAMES
             THEN [error |-> ValidationException, output |-> {}]
             ELSE NormalizeLoop(http_methods_, i + 1, output \cup {method_name})

\* normalisation that adds each token as it is given, never upper-cased
NormalizeAsGiven(http_methods_) ==
    IF \E k \in DOMAIN http_methods_.items : http_methods_.items[k].value \notin HTTP_METHOD_NAMES
    THEN [error |-> ValidationException, output |-> {}]
    ELSE [error |-> "", output |-> {http_methods_.items[k].value : k \in DOMAIN http_methods_.items}]

\* _normalize_http_method: a str (a member of HttpMethod is one) is wrapped in a list
_normalize_http_method(http_methods_) ==
    NormalizeLoop(http_methods_.items, 1, {})

\* the default status code with DELETE tested before POST
DefaultStatusDeleteFirst(http_methods_) ==
    IF DELETE \in http_methods_ THEN HTTP_204_NO_CONTENT
    ELSE IF POST \in http_methods_ THEN HTTP_201_CREATED
    ELSE HTTP_200_OK

_get_default_status_code(http_methods_) ==
    IF POST \in http_methods_ THEN HTTP_201_CREATED
    ELSE IF DELETE \in http_methods_ THEN HTTP_204_NO_CONTENT
    ELSE HTTP_200_OK

(***************************************************************************)
(* Return annotations.  A class is given by its name, the names of the     *)
(* classes it is a subclass of (itself included) and whether an instance   *)
(* call of it is a coroutine function; a value that is no class (None, a   *)
(* string, a typing alias, Signature.empty) has no bases.                  *)
(***************************************************************************)
Ann(name, bases, async_callable) ==
    [name |-> name, bases |-> bases, async_callable |-> async_callable]

Signature_empty == Ann("Signature.empty", {}, FALSE)

AnnNone == Ann("None", {}, FALSE)

AnnNoneStr == Ann("'None'", {}, FALSE)

AnnStr == Ann("str", {"str"}, FALSE)

AnnDict == Ann("dict", {"dict"}, FALSE)

AnnRedirect == Ann("Redirect", {"Redirect", "ResponseContainer"}, FALSE)

AnnFile == Ann("File", {"File", "ResponseContainer"}, FALSE)

\* the string "File" as an annotation
AnnFileStr == Ann("'File'", {}, FALSE)

AnnFileResponse == Ann("FileResponse", {"FileResponse", "Response"}, TRUE)

AnnResponse == Ann("Response", {"Response"}, TRUE)

AnnASGIApp == Ann("ASGIApp", {}, FALSE)

AnnCoroutineFunction == Ann("async def", {}, TRUE)

\* a user's class deriving from a response container and from Response
AnnContainerResponse == Ann("ContainerResponse", {"ContainerResponse", "File", "ResponseContainer", "Response"}, TRUE)

\* a user's class deriving from str, and one deriving from Redirect
AnnStrSubclass == Ann("StrSubclass", {"StrSubclass", "str"}, FALSE)

AnnRedirectSubclass == Ann("RedirectSubclass", {"RedirectSubclass", "Redirect", "ResponseContainer"}, FALSE)

ReturnAnnotations ==
    {Signature_empty, AnnNone, AnnNoneStr, AnnStr, AnnDict, AnnRedirect, AnnFile,
     AnnFileResponse, AnnResponse, AnnASGIApp, AnnFileStr, AnnStrSubclass,
     AnnRedirectSubclass, AnnContainerResponse}

\* the parameter names of the handler function
ParameterSets == {{}, {"data"}, {"socket"}, {"request", "data"}}

is_class_and_subclass(annotation, t_type) == t_type \in annotation.bases

is_async_callable(annotation) == annotation.async_callable

\* annotation in {None, "None"}
IsNoneAnnotation(annotation) == annotation.name \in {"None", "'None'"}

\* the no-body test without the 304 case
NoBodyStatusNo304(code) == code < 200 \/ code \in {HTTP_204_NO_CONTENT}

\* the status codes that carry no body
NoBodyStatus(code) == code < 200 \/ code \in {HTTP_204_NO_CONTENT, HTTP_304_NOT_MODIFIED}

\* _validate_handler_function rejecting a data parameter only when GET is the one method
ValidateDataOnlyGet(annotation, parameters, code, media, methods) ==
    LET media2 == IF (is_class_and_subclass(annotation, "File")
                        \/ is_class_and_subclass(annotation, "FileResponse"))
                     /\ media \in {MediaType_JSON, MediaType_HTML}
                  THEN MediaType_TEXT
                  ELSE media
    IN  IF annotation = Signature_empty
        THEN [error |-> ImproperlyConfiguredException, media_type |-> media]
        ELSE IF NoBodyStatus(code) /\ ~IsNoneAnnotation(annotation)
        THEN [error |-> ImproperlyConfiguredException, media_type |-> media]
        ELSE IF is_class_and_subclass(annotation, "Redirect") /\ code \notin REDIRECT_STATUS_CODES
        THEN [error |-> ValidationException, media_type |-> media]
        ELSE IF "socket" \in parameters
        THEN [error |-> ImproperlyConfiguredException, media_type |-> media2]
        ELSE IF "data" \in parameters /\ methods = {GET}
        THEN [error |-> ImproperlyConfiguredException, media_type |-> media2]
        ELSE [error |-> "", media_type |-> media2]

\* HTTPRouteHandler._validate_handler_function: the exception it raises ("" when
\* none) and the media type it leaves in self.media_type
_validate_handler_function(annotation, parameters, code, media, methods) ==
    LET media2 == IF (is_class_and_subclass(annotation, "File")
                        \/ is_class_and_subclass(annotation, "FileResponse"))
                     /\ media \in {MediaType_JSON, MediaType_HTML}
                  THEN MediaType_TEXT
                  ELSE media
    IN  IF annotation = Signature_empty
        THEN [error |-> ImproperlyConfiguredException, media_type |-> media]
        ELSE IF NoBodyStatus(code) /\ ~IsNoneAnnotation(annotation)
        THEN [error |-> ImproperlyConfiguredException, media_type |-> media]
        ELSE IF is_class_and_subclass(annotation, "Redirect") /\ code \notin REDIRECT_STATUS_CODES
        THEN [error |-> ValidationException, media_type |-> media]
        ELSE IF "socket" \in parameters
        THEN [error |-> ImproperlyConfiguredException, media_type |-> media2]
        ELSE IF "data" \in parameters /\ GET \in methods
        THEN [error |-> ImproperlyConfiguredException, media_type |-> media2]
        ELSE [error |-> "", media_type |-> media2]

\* the inference of __call__ with Redirect left out of the types that give text
InferredMediaTypeWithoutRedirect(annotation) ==
    IF annotation.name \in {"str", "bytes", "AnyStr", "File"}
       \/ \E t_type \in {"str", "bytes"} : is_class_and_subclass(annotation, t_type)
    THEN MediaType_TEXT
    ELSE MediaType_JSON

\* the media type HTTPRouteHandler.__call__ infers when none is set
InferredMediaType(annotation) ==
    IF annotation.name \in {"str", "bytes", "AnyStr", "Redirect", "File"}
       \/ \E t_type \in {"str", "bytes"} : is_class_and_subclass(annotation, t_type)
    THEN MediaType_TEXT
    ELSE MediaType_JSON

(***************************************************************************)
(* Construction and registration.                                          *)
(***************************************************************************)
NoArgs ==
    [cls |-> "HTTPRouteHandler", kwargs |-> None, http_method |-> Many(<<>>),
     status_code |-> None, media_type |-> None]

NoSignature == [return_annotation |-> Signature_empty, parameters |-> {}]

\* the body of HTTPRouteHandler.__init__, run for an instance of class cls with the
\* arguments http_method, status_code and media_type
HTTPRouteHandler__init__(cls, kwargs, http_method, status_code_, media_type_) ==
    /\ phase = "new"
    /\ args' = [cls |-> cls, kwargs |-> kwargs, http_method |-> http_method,
                status_code |-> status_code_, media_type |-> media_type_]
    /\ IF ~TruthyMethods(http_method)
       THEN /\ error' = ImproperlyConfiguredException
            /\ phase' = "not_created"
            /\ UNCHANGED <<http_methods, status_code, media_type>>
       ELSE LET normalized == _normalize_http_method(http_method)
            IN  IF normalized.error # ""
                THEN /\ error' = normalized.error
                     /\ phase' = "not_created"
                     /\ UNCHANGED <<http_methods, status_code, media_type>>
                ELSE /\ error' = ""
                     /\ phase' = "constructed"
                     /\ http_methods' = normalized.output
                     /\ status_code' = IF TruthyInt(status_code_)
                                       THEN status_code_[1]
                                       ELSE _get_default_status_code(normalized.output)
                     /\ media_type' = IF media_type_ # None THEN media_type_[1] ELSE ""
    /\ UNCHANGED signature
    /\ UNCHANGED resolveVars
    /\ UNCHANGED <<sessionVars, cacheVars, backendVars>>

\* route(http_method=..., status_code=..., media_type=...); route = HTTPRouteHandler
__init__(http_method, status_code_, media_type_) ==
    HTTPRouteHandler__init__("HTTPRouteHandler", None, http_method, status_code_, media_type_)

\* the semantic route decorators and the method each passes to HTTPRouteHandler
SemanticMethod ==
    [get |-> GET, head |-> HEAD, post |-> POST, put |-> PUT, patch |-> PATCH, delete |-> DELETE]

\* a semantic decorator that passes its method on whatever kwargs holds
SemanticIgnoringKwargs(cls, kwargs, status_code_, media_type_) ==
    HTTPRouteHandler__init__(cls, kwargs, One(Member(SemanticMethod[cls])),
                             status_code_, media_type_)

\* get.__init__ .. delete.__init__: cls(status_code=..., media_type=..., **kwargs),
\* kwargs holding an http_method (<<value>>) or none (None)
Semantic__init__(cls, kwargs, status_code_, media_type_) ==
    IF kwargs # None
    THEN /\ phase = "new"
         /\ args' = [cls |-> cls, kwargs |-> kwargs, http_method |-> One(Member(SemanticMethod[cls])),
                     status_code |-> status_code_, media_type |-> media_type_]
         /\ error' = ImproperlyConfiguredException
         /\ phase' = "not_created"
         /\ UNCHANGED <<http_methods, status_code, media_type, signature>>
         /\ UNCHANGED resolveVars
         /\ UNCHANGED <<sessionVars, cacheVars, backendVars>>
    ELSE HTTPRouteHandler__init__(cls, kwargs, One(Member(SemanticMethod[cls])),
                                  status_code_, media_type_)

\* head._validate_handler_function: HTTPRouteHandler's, then the test of the annotation
head_validate_handler_function(annotation, parameters, code, media, methods) ==
    LET validated == _validate_handler_function(annotation, parameters, code, media, methods)
    IN  IF validated.error # "" THEN validated
        ELSE IF ~(\/ annotation.name \in {"None", "'None'", "'FileResponse'", "'File'"}
                  \/ is_class_and_subclass(annotation, "File")
                  \/ is_class_and_subclass(annotation, "FileResponse"))
        THEN [error |-> ImproperlyConfiguredException, media_type |-> validated.media_type]
        ELSE validated

\* HTTPRouteHandler.__call__(fn), fn having the given return annotation and parameters
__call__(return_annotation, parameters) ==
    /\ phase = "constructed"
    /\ signature' = [return_annotation |-> return_annotation, parameters |-> parameters]
    /\ LET validated == IF args.cls = "head"
                        THEN head_validate_handler_function(return_annotation, parameters,
                                                            status_code, media_type, http_methods)
                        ELSE _validate_handler_function(return_annotation, parameters,
                                                        status_code, media_type, http_methods)
       IN  IF validated.error # ""
           THEN /\ error' = validated.error
                /\ phase' = "failed"
                /\ media_type' = validated.media_type
           ELSE /\ error' = ""
                /\ phase' = "registered"
                /\ media_type' = IF validated.media_type = ""
                                 THEN InferredMediaType(return_annotation)
                                 ELSE validated.media_type
    /\ UNCHANGED <<args, http_methods, status_code>>
    /\ UNCHANGED resolveVars
    /\ UNCHANGED <<sessionVars, cacheVars, backendVars>>

(***************************************************************************)
(* The ownership chain.  A layer (app, router, controller, handler) holds  *)
(* the attributes the resolve_* methods read.                              *)
(***************************************************************************)
ResponseHeader(name, value, documentation_only) ==
    [name |-> name, value |-> value, documentation_only |-> documentation_only]

Cookie(key, value, documentation_only) ==
    [key |-> key, value |-> value, documentation_only |-> documentation_only]

\* Cookie.__eq__: cookies are keyed by their key
CookieEq(c, d) == c.key = d.key

\* a list (or None) and a Mapping, as a layer's response_headers / response_cookies
NoneType == [type |-> "NoneType", items |-> <<>>]

List(items) == [type |-> "list", items |-> items]

Dict(pairs) == [type |-> "dict", items |-> pairs]

IsMapping(x) == x.type = "dict"

\* bool(x) of None, a list or a Mapping
Truthy(x) == x.items # <<>>

CACHE_CONTROL_HEADER_NAME == "cache-control"

ETAG_HEADER_NAME == "etag"

\* a CacheControlHeader or ETag: its HEADER_NAME, the str its to_header() gives and
\* its documentation_only flag
Header(header_name, to_header, documentation_only) ==
    [HEADER_NAME |-> header_name, to_header |-> to_header, documentation_only |-> documentation_only]

Layers == 1..NumLayers

DefaultLayer ==
    [response_class |-> None, response_headers |-> NoneType, response_cookies |-> NoneType,
     before_request |-> None, after_request |-> None, after_response |-> None,
     cache_control |-> None, etag |-> None]

SingleValued == {"response_class", "before_request", "after_request", "after_response"}

\* the values the model assigns to attribute attr of layer i; each names its layer
AttributeValues(i, attr) ==
    CASE attr \in SingleValued -> {<<attr, i>>}
      [] attr = "response_headers" ->
            {List(<<ResponseHeader("x-a", <<"header", i>>, FALSE)>>),
             List(<<ResponseHeader(CACHE_CONTROL_HEADER_NAME, <<"header", i>>, FALSE),
                    ResponseHeader(ETAG_HEADER_NAME, <<"header", i>>, FALSE)>>),
             Dict(<< <<"x-a", <<"mapping", i>> >> >>)}
      [] attr = "response_cookies" ->
            {List(<<Cookie("a", <<"cookie", i>>, FALSE)>>),
             List(<<Cookie("b", <<"cookie", i>>, FALSE), Cookie("a", <<"second", i>>, FALSE)>>),
             Dict(<< <<"a", <<"mapping", i>> >> >>)}
      [] attr = "cache_control" -> {<<Header(CACHE_CONTROL_HEADER_NAME, <<"cache_control", i>>, FALSE)>>}
      [] attr = "etag" -> {<<Header(ETAG_HEADER_NAME, <<"etag", i>>, FALSE)>>}

(***************************************************************************)
(* Resolution of the layered settings.                                     *)
(***************************************************************************)
DefaultResponse == <<"Response">>

RECURSIVE ResponseClassFrom(_, _)
\* the loop of resolve_response_class over reversed(layers), from layer i outwards
ResponseClassFrom(layers, i) ==
    IF i = 0 THEN DefaultResponse
    ELSE IF layers[i].response_class # None THEN layers[i].response_class
    ELSE ResponseClassFrom(layers, i - 1)

resolve_response_class(layers) == ResponseClassFrom(layers, Len(layers))

RECURSIVE DictUpdate(_, _, _)
\* dict.update of the dict d (a function of the names) with the headers hs[i..]
DictUpdate(d, hs, i) ==
    IF i > Len(hs) THEN d
    ELSE DictUpdate((hs[i].name :> hs[i]) @@ d, hs, i + 1)

\* the headers of a layer's response_headers; a Mapping gives one header a pair
LayerHeaders(layer_response_headers) ==
    IF IsMapping(layer_response_headers)
    THEN [k \in DOMAIN layer_response_headers.items |->
             ResponseHeader(layer_response_headers.items[k][1],
                            layer_response_headers.items[k][2], FALSE)]
    ELSE layer_response_headers.items

\* the header a layer's cache_control or etag gives
ExtraHeader(header_model) ==
    ResponseHeader(header_model.HEADER_NAME, header_model.to_header,
                   header_model.documentation_only)

\* one turn of the loop of resolve_response_headers: the dict after the layer
HeadersAfterLayer(d, layer) ==
    LET d1 == IF Truthy(layer.response_headers)
              THEN DictUpdate(d, LayerHeaders(layer.response_headers), 1)
              ELSE d
        d2 == IF layer.cache_control # None
              THEN (layer.cache_control[1].HEADER_NAME :> ExtraHeader(layer.cache_control[1])) @@ d1
              ELSE d1
        d3 == IF layer.etag # None
              THEN (layer.etag[1].HEADER_NAME :> ExtraHeader(layer.etag[1])) @@ d2
              ELSE d2
    IN  d3

RECURSIVE HeadersFrom(_, _, _)
\* the loop of resolve_response_headers from layer i inwards
HeadersFrom(d, layers, i) ==
    IF i > Len(layers) THEN d
    ELSE HeadersFrom(HeadersAfterLayer(d, layers[i]), layers, i + 1)

RECURSIVE HeadersFromInnermost(_, _, _)
\* the same loop over the layers reversed, from layer i outwards
HeadersFromInnermost(d, layers, i) ==
    IF i = 0 THEN d
    ELSE HeadersFromInnermost(HeadersAfterLayer(d, layers[i]), layers, i - 1)

\* resolve_response_headers scanning from the innermost layer
ResolveResponseHeadersReversed(layers) ==
    LET d == HeadersFromInnermost(<<>>, layers, Len(layers))
    IN  {d[name] : name \in DOMAIN d}

\* resolve_response_headers: frozenset(resolved_response_headers.values())
resolve_response_headers(layers) ==
    LET d == HeadersFrom(<<>>, layers, 1)
    IN  {d[name] : name \in DOMAIN d}

\* set.add: an element equal to one of the set leaves the set as it is
SetAdd(S, c) == IF \E d \in S : CookieEq(d, c) THEN S ELSE S \cup {c}

RECURSIVE SetUpdate(_, _, _)
\* set.update of the set S with the cookies cs[i..]
SetUpdate(S, cs, i) ==
    IF i > Len(cs) THEN S
    ELSE SetUpdate(SetAdd(S, cs[i]), cs, i + 1)

\* the cookies of a layer's response_cookies; a Mapping gives one cookie a pair
LayerCookies(layer_response_cookies) ==
    IF IsMapping(layer_response_cookies)
    THEN [k \in DOMAIN layer_response_cookies.items |->
             Cookie(layer_response_cookies.items[k][1],
                    layer_response_cookies.items[k][2], FALSE)]
    ELSE layer_response_cookies.items

RECURSIVE CookiesFrom(_, _, _)
\* the loop of resolve_response_cookies over reversed(layers), from layer i outwards
CookiesFrom(S, layers, i) ==
    IF i = 0 THEN S
    ELSE CookiesFrom(IF Truthy(layers[i].response_cookies)
                     THEN SetUpdate(S, LayerCookies(layers[i].response_cookies), 1)
                     ELSE S,
                     layers, i - 1)

RECURSIVE CookiesFromOutermost(_, _, _)
\* the same loop over the layers unreversed, from layer i inwards
CookiesFromOutermost(S, layers, i) ==
    IF i > Len(layers) THEN S
    ELSE CookiesFromOutermost(IF Truthy(layers[i].response_cookies)
                              THEN SetUpdate(S, LayerCookies(layers[i].response_cookies), 1)
                              ELSE S,
                              layers, i + 1)

\* resolve_response_cookies scanning from the outermost layer
ResolveResponseCookiesUnreversed(layers) == CookiesFromOutermost({}, layers, 1)

\* resolve_response_cookies: frozenset(response_cookies)
resolve_response_cookies(layers) == CookiesFrom({}, layers, Len(layers))

RECURSIVE HookList(_, _, _)
\* [layer.attr for layer in layers if layer.attr], from layer i inwards
HookList(layers, attr, i) ==
    IF i > Len(layers) THEN <<>>
    ELSE IF layers[i][attr] # None
    THEN <<layers[i][attr]>> \o HookList(layers, attr, i + 1)
    ELSE HookList(layers, attr, i + 1)

\* handlers[0] if handlers else None
FirstOrNone(handlers) == IF handlers # <<>> THEN handlers[1] ELSE None

\* handlers[-1] if handlers else None
LastOrNone(handlers) == IF handlers # <<>> THEN handlers[Len(handlers)] ELSE None

\* the hook the resolve_* methods pick for attr
ResolveHook(layers, attr) == LastOrNone(HookList(layers, attr, 1))

(***************************************************************************)
(* The memoised response handler.                                          *)
(***************************************************************************)
\* the value Empty of _resolved_response_handler
EmptyHandler == [kind |-> "Empty"]

\* the tests of resolve_response_handler with the raw ASGI test made first
ResponseStrategyAsgiFirst(return_annotation) ==
    IF is_async_callable(return_annotation)
       \/ return_annotation.name \in {"ASGIApp", "'ASGIApp'"}
    THEN "generic_asgi"
    ELSE IF is_class_and_subclass(return_annotation, "ResponseContainer")
    THEN "response_container"
    ELSE IF is_class_and_subclass(return_annotation, "Response")
    THEN "response"
    ELSE "data"

\* the tests resolve_response_handler makes of the return annotation, in its order
ResponseStrategy(return_annotation) ==
    IF is_class_and_subclass(return_annotation, "ResponseContainer")
    THEN "response_container"
    ELSE IF is_class_and_subclass(return_annotation, "Response")
    THEN "response"
    ELSE IF is_async_callable(return_annotation)
            \/ return_annotation.name \in {"ASGIApp", "'ASGIApp'"}
    THEN "generic_asgi"
    ELSE "data"

\* a memoised attribute tested for falsity: None is resolved again
IsFalsy(memo) == memo \in {Empty, None}

\* memo is Empty
IsEmpty(memo) == memo = Empty

\* frozenset(data.cookies): of the cookies of one key the first is kept
frozenset(cookies) == SetUpdate({}, cookies, 1)

\* _filter_cookies: {*local_cookies, *layered_cookies} keeps the local cookie of a key
\* both sets hold; the cookies marked documentation_only are then dropped
_filter_cookies(local_cookies, layered_cookies) ==
    LET united == local_cookies \cup
                      {c \in layered_cookies : ~\E d \in local_cookies : CookieEq(d, c)}
    IN  {cookie \in united : ~cookie.documentation_only}

\* _filter_cookies under lru_cache: the list kept for these arguments if there is one
lru_cache_filter_cookies(local_cookies, layered_cookies) ==
    IF <<local_cookies, layered_cookies>> \in DOMAIN _filter_cookies_cache
    THEN _filter_cookies_cache[<<local_cookies, layered_cookies>>]
    ELSE _filter_cookies(local_cookies, layered_cookies)

\* _normalize_headers: the dict of the values of the headers not marked
\* documentation_only, by name (a function of the names)
_normalize_headers(headers) ==
    LET kept == {header \in headers : ~header.documentation_only}
    IN  [name \in {header.name : header \in kept} |->
            (CHOOSE header \in kept : header.name = name).value]

\* str.lower() on the header names of the model
lower(name) == CASE name = "X-B" -> "x-b" [] OTHER -> name

\* Cookie.to_encoded_header()
to_encoded_header(cookie) == [name |-> "set-cookie", cookie |-> cookie]

\* raw_headers of _create_data_handler: the pairs of the lower-cased names and the
\* values of the normalized headers, and the encoded headers of the cookies not
\* marked documentation_only; one list, made when the closure is
RawHeaders(headers, cookies) ==
    LET normalized == _normalize_headers(headers)
        normalized_headers == {[name |-> lower(name), value |-> normalized[name]] :
                                   name \in DOMAIN normalized}
        cookie_headers == {to_encoded_header(cookie) :
                               cookie \in {c \in cookies : ~c.documentation_only}}
    IN  normalized_headers \cup cookie_headers

\* the closure resolve_response_handler builds, with the values it captures
CreateResponseHandler(layers, return_annotation, media, code) ==
    LET after_request == ResolveHook(layers, "after_request")
        response_class == resolve_response_class(layers)
        headers == resolve_response_headers(layers)
        cookies == resolve_response_cookies(layers)
        kind == ResponseStrategy(return_annotation)
    IN  CASE kind = "response_container" ->
                 [kind |-> kind, after_request |-> after_request, cookies |-> cookies,
                  headers |-> headers, media_type |-> media, status_code |-> code]
          [] kind = "response" ->
                 [kind |-> kind, after_request |-> after_request, cookies |-> cookies]
          [] kind = "generic_asgi" ->
                 [kind |-> kind, after_request |-> after_request, cookies |-> cookies]
          [] kind = "data" ->
                 [kind |-> kind, after_request |-> after_request, cookies |-> cookies,
                  headers |-> headers, media_type |-> media, response_class |-> response_class,
                  return_annotation |-> return_annotation, status_code |-> code,
                  raw_headers |-> RawHeaders(headers, cookies)]

\* what a handler function returns: a response container, a Response, an ASGI app
\* with or without a set_cookie method, or any other value
ContainerData(cookies, headers, media_type_) ==
    [type |-> "ResponseContainer", cookies |-> cookies, headers |-> headers,
     media_type |-> media_type_]

ResponseData(cookies, headers, status_code_, media_type_, body) ==
    [type |-> "Response", cookies |-> cookies, headers |-> headers,
     status_code |-> status_code_, media_type |-> media_type_, body |-> body]

ASGIData(has_set_cookie) == [type |-> "ASGIApp", set_cookie |-> has_set_cookie]

\* the values of a generic handler function: a mapping, an instance of a model class,
\* an instance of a DTO class, and what a plugin or a DTO class makes of a value
Value(class, source) == [class |-> class, source |-> source]

MappingValue == Value("dict", None)

ModelInstance == Value("Model", None)

DTOInstance == Value("DTO", None)

\* one value, and a list of values
Single(value) == [many |-> FALSE, items |-> <<value>>]

Sequence(values) == [many |-> TRUE, items |-> values]

PlainData(content) == [type |-> "data", content |-> content]

\* the plugins argument: no plugin, or one plugin that supports the model class
NoPlugins == <<>>

Plugins == {NoPlugins, <<"plugin">>}

\* a DTO class, and a list of it, as return annotations
AnnDTO == Ann("CompanyDTO", {"CompanyDTO", "DTO"}, FALSE)

AnnListDTO == Ann("List[CompanyDTO]", {}, FALSE)

\* annotation_is_iterable_of_type(annotation, type_value)
annotation_is_iterable_of_type(annotation, type_value) ==
    annotation = AnnListDTO /\ type_value \in AnnDTO.bases

\* isinstance(data, DTO) and isinstance(data, dict)
IsInstance(content, class) == ~content.many /\ content.items[1].class = class

\* the DTO class called with the items of data if isinstance(data, dict), else
\* its from_model_instance(data)
ToDTO(content) ==
    IF IsInstance(content, "dict")
    THEN Value("DTO", <<"items", content>>)
    ELSE Value("DTO", <<"from_model_instance", content>>)

\* get_plugin_for_value(value, plugins): the plugin that supports the value, or the
\* first of the values of a list
get_plugin_for_value(content, plugins) ==
    IF plugins # <<>> /\ content.items # <<>> /\ content.items[1].class = "Model"
    THEN <<plugins[1]>>
    ELSE None

\* plugin.to_dict(datum)
to_dict(plugin, datum) == Value("dict", <<plugin, datum>>)

\* _normalize_response_data(data, plugins)
_normalize_response_data(content, plugins) ==
    LET plugin == get_plugin_for_value(content, plugins)
    IN  IF plugin = None THEN content
        ELSE IF content.many
        THEN Sequence([i \in DOMAIN content.items |-> to_dict(plugin[1], Single(content.items[i]))])
        ELSE Single(to_dict(plugin[1], content))

\* a container handler in which the layered headers override the container's, the
\* handler's media type is always used and the hook's result is dropped
ContainerHandlerLayersFirst(h, data) ==
    [headers |-> _normalize_headers(h.headers) @@ data.headers,
     status_code |-> h.status_code,
     media_type |-> h.media_type,
     cookies |-> lru_cache_filter_cookies(frozenset(data.cookies), h.cookies)]

\* the handler of _create_response_container_handler called with data: the response
\* data.to_response makes of the normalized headers updated with data.headers, the
\* status code and data.media_type or media_type, with its cookies assigned
ResponseContainerHandler(h, data) ==
    [headers |-> data.headers @@ _normalize_headers(h.headers),
     status_code |-> h.status_code,
     media_type |-> IF data.media_type # None THEN data.media_type[1] ELSE h.media_type,
     cookies |-> lru_cache_filter_cookies(frozenset(data.cookies), h.cookies)]

\* a response handler that also gives the response the layered headers
ResponseHandlerAddingHeaders(h, data) ==
    [data EXCEPT !.cookies = lru_cache_filter_cookies(frozenset(data.cookies), h.cookies),
                 !.headers = data.headers @@ ("X-B" :> <<"layered">>)]

\* the handler of _create_response_handler called with data: data itself, with its
\* cookies assigned
ResponseHandler(h, data) ==
    [data EXCEPT !.cookies = lru_cache_filter_cookies(frozenset(data.cookies), h.cookies)]

\* the handler of _create_generic_asgi_response_handler called with data: the cookies
\* it passes to data.set_cookie
GenericASGIResponseHandler(h, data) ==
    [set_cookie |-> IF data.set_cookie THEN h.cookies ELSE {}]

\* the content handler of _create_data_handler gives to create_response: data made a
\* DTO, the values of a list made DTOs when the first is none, data normalized by
\* the plugins, or data
DataHandlerContent(h, content, plugins) ==
    LET is_dto_annotation == is_class_and_subclass(h.return_annotation, "DTO")
        is_dto_iterable_annotation ==
            annotation_is_iterable_of_type(h.return_annotation, "DTO")
    IN  IF is_dto_annotation /\ ~IsInstance(content, "DTO")
        THEN Single(ToDTO(content))
        ELSE IF /\ is_dto_iterable_annotation
                /\ content.items # <<>>
                /\ content.items[1].class # "DTO"
        THEN Sequence([i \in DOMAIN content.items |-> ToDTO(Single(content.items[i]))])
        ELSE IF plugins # <<>> /\ ~(is_dto_annotation \/ is_dto_iterable_annotation)
        THEN _normalize_response_data(content, plugins)
        ELSE content

\* the handler of _create_data_handler called with data: the response create_response
\* makes, whose raw_headers are the list of the closure
DataHandler(h, data, plugins) ==
    [content |-> DataHandlerContent(h, data.content, plugins),
     raw_headers |-> h.raw_headers,
     response_class |-> h.response_class,
     media_type |-> h.media_type,
     status_code |-> h.status_code]

\* response_handler(app=app, data=data, plugins=plugins, request=request)
HandlerCall(h, data, plugins) ==
    CASE h.kind = "response_container" -> ResponseContainerHandler(h, data)
      [] h.kind = "response" -> ResponseHandler(h, data)
      [] h.kind = "generic_asgi" -> GenericASGIResponseHandler(h, data)
      [] h.kind = "data" -> DataHandler(h, data, plugins)

\* the values a handler function of each strategy returns in the model
DataFor(kind) ==
    CASE kind = "response_container" ->
             {ContainerData(<<>>, <<>>, None),
              ContainerData(<<Cookie("a", <<"data">>, TRUE)>>, ("X-B" :> <<"data">>),
                            <<MediaType_HTML>>)}
      [] kind = "response" ->
             {ResponseData(<<>>, <<>>, HTTP_200_OK, MediaType_JSON, "{}"),
              ResponseData(<<Cookie("a", <<"data">>, FALSE), Cookie("b", <<"data">>, TRUE)>>,
                           ("x-a" :> <<"data">>), HTTP_201_CREATED, MediaType_HTML, "<p>")}
      [] kind = "generic_asgi" -> {ASGIData(TRUE), ASGIData(FALSE)}
      [] kind = "data" -> {PlainData(Single(MappingValue))}

\* the first of them: a value that brings no cookie and no header of its own
PlainDataFor(kind) ==
    CASE kind = "response_container" -> ContainerData(<<>>, <<>>, None)
      [] kind = "response" -> ResponseData(<<>>, <<>>, HTTP_200_OK, MediaType_JSON, "{}")
      [] kind = "generic_asgi" -> ASGIData(TRUE)
      [] kind = "data" -> PlainData(Single(MappingValue))

\* the type of the values a handler function of each strategy returns
DataType(kind) ==
    CASE kind = "response_container" -> "ResponseContainer"
      [] kind = "response" -> "Response"
      [] kind = "generic_asgi" -> "ASGIApp"
      [] kind = "data" -> "data"

\* the arguments _filter_cookies is called with for data
CacheKey(h, data) == <<frozenset(data.cookies), h.cookies>>

\* await after_request(response) if after_request else response: what the hook makes
\* of the response, or the response
AfterRequest(after_request, response) ==
    IF after_request # None
    THEN [after_request |-> after_request, response |-> response]
    ELSE response

\* what to_response returns: the response the response handler builds from data, and
\* the value it returns
Response(response_handler, data, plugins) ==
    [response_handler |-> response_handler, data |-> data, plugins |-> plugins,
     response |-> HandlerCall(response_handler, data, plugins),
     returns |-> AfterRequest(response_handler.after_request,
                              HandlerCall(response_handler, data, plugins))]

(***************************************************************************)
(* Operations on a registered handler.                                     *)
(***************************************************************************)
Steps == epoch + Len(returned)

Return(op, value) ==
    returned' = Append(returned, [op |-> op, value |-> value, epoch |-> epoch])

\* an attribute of layer i is assigned (by the layer's constructor or later)
SetLayerAttribute(i, attr, value) ==
    /\ phase = "registered"
    /\ Steps < MaxSteps
    /\ ownership_layers[i][attr] # value
    /\ ownership_layers' = [ownership_layers EXCEPT ![i][attr] = value]
    /\ epoch' = epoch + 1
    /\ UNCHANGED <<_resolved_before_request, _resolved_after_response,
                   _resolved_response_handler, returned>>
    /\ UNCHANGED handlerVars
    /\ UNCHANGED <<sessionVars, cacheVars, backendVars>>

\* a call of resolve_response_class()
Call_resolve_response_class ==
    /\ phase = "registered"
    /\ Steps < MaxSteps
    /\ Return("resolve_response_class", resolve_response_class(ownership_layers))
    /\ UNCHANGED <<ownership_layers, _resolved_before_request, _resolved_after_response,
                   _resolved_response_handler, epoch>>
    /\ UNCHANGED handlerVars
    /\ UNCHANGED <<sessionVars, cacheVars, backendVars>>

\* a call of resolve_response_headers()
Call_resolve_response_headers ==
    /\ phase = "registered"
    /\ Steps < MaxSteps
    /\ Return("resolve_response_headers", resolve_response_headers(ownership_layers))
    /\ UNCHANGED <<ownership_layers, _resolved_before_request, _resolved_after_response,
                   _resolved_response_handler, epoch>>
    /\ UNCHANGED handlerVars
    /\ UNCHANGED <<sessionVars, cacheVars, backendVars>>

\* a call of resolve_response_cookies() that reverses the chain in place
ResolveCookiesReversingInPlace ==
    /\ phase = "registered"
    /\ Steps < MaxSteps
    /\ Return("resolve_response_cookies", resolve_response_cookies(ownership_layers))
    /\ ownership_layers' = [i \in DOMAIN ownership_layers |->
                               ownership_layers[Len(ownership_layers) + 1 - i]]
    /\ UNCHANGED <<_resolved_before_request, _resolved_after_response,
                   _resolved_response_handler, epoch>>
    /\ UNCHANGED handlerVars
    /\ UNCHANGED <<sessionVars, cacheVars, backendVars>>

\* a call of resolve_response_cookies()
Call_resolve_response_cookies ==
    /\ phase = "registered"
    /\ Steps < MaxSteps
    /\ Return("resolve_response_cookies", resolve_response_cookies(ownership_layers))
    /\ UNCHANGED <<ownership_layers, _resolved_before_request, _resolved_after_response,
                   _resolved_response_handler, epoch>>
    /\ UNCHANGED handlerVars
    /\ UNCHANGED <<sessionVars, cacheVars, backendVars>>

\* a call of resolve_before_request()
resolve_before_request ==
    /\ phase = "registered"
    /\ Steps < MaxSteps
    /\ _resolved_before_request' =
           IF IsEmpty(_resolved_before_request)
           THEN ResolveHook(ownership_layers, "before_request")
           ELSE _resolved_before_request
    /\ Return("resolve_before_request", _resolved_before_request')
    /\ UNCHANGED <<ownership_layers, _resolved_after_response,
                   _resolved_response_handler, epoch>>
    /\ UNCHANGED handlerVars
    /\ UNCHANGED <<sessionVars, cacheVars, backendVars>>

\* a call of resolve_after_response()
resolve_after_response ==
    /\ phase = "registered"
    /\ Steps < MaxSteps
    /\ _resolved_after_response' =
           IF IsEmpty(_resolved_after_response)
           THEN ResolveHook(ownership_layers, "after_response")
           ELSE _resolved_after_response
    /\ Return("resolve_after_response", _resolved_after_response')
    /\ UNCHANGED <<ownership_layers, _resolved_before_request,
                   _resolved_response_handler, epoch>>
    /\ UNCHANGED handlerVars
    /\ UNCHANGED <<sessionVars, cacheVars, backendVars>>

\* the handler resolve_response_handler() returns, built when none is stored
ResolvedResponseHandler ==
    IF _resolved_response_handler = EmptyHandler
    THEN CreateResponseHandler(ownership_layers, signature.return_annotation,
                               media_type, status_code)
    ELSE _resolved_response_handler

\* a call of resolve_response_handler()
resolve_response_handler ==
    /\ phase = "registered"
    /\ Steps < MaxSteps
    /\ _resolved_response_handler' = ResolvedResponseHandler
    /\ Return("resolve_response_handler", _resolved_response_handler')
    /\ UNCHANGED <<ownership_layers, _resolved_before_request, _resolved_after_response,
                   epoch>>
    /\ UNCHANGED handlerVars
    /\ UNCHANGED <<sessionVars, cacheVars, backendVars>>

\* response.cookies.append(cookie), on the response the k-th call returned: the list
\* is the one lru_cache keeps for the arguments of _filter_cookies
cookies_append(k, cookie) ==
    /\ phase = "registered"
    /\ k \in DOMAIN returned
    /\ returned[k].op = "to_response"
    /\ returned[k].value.response_handler.kind \in {"response_container", "response"}
    /\ LET key == CacheKey(returned[k].value.response_handler, returned[k].value.data)
       IN  /\ cookie \notin _filter_cookies_cache[key]
           /\ _filter_cookies_cache' = [_filter_cookies_cache EXCEPT ![key] = @ \cup {cookie}]
    /\ UNCHANGED <<handlerVars, resolveVars, sessionVars, backendVars>>

\* response.raw_headers.append(pair), on the response the k-th call returned: the list
\* is the one the closure of _create_data_handler holds
raw_headers_append(k, pair) ==
    /\ phase = "registered"
    /\ k \in DOMAIN returned
    /\ returned[k].op = "to_response"
    /\ returned[k].value.response_handler.kind = "data"
    /\ pair \notin _resolved_response_handler.raw_headers
    /\ _resolved_response_handler' =
           [_resolved_response_handler EXCEPT !.raw_headers = @ \cup {pair}]
    /\ UNCHANGED <<ownership_layers, _resolved_before_request, _resolved_after_response,
                   epoch, returned>>
    /\ UNCHANGED <<handlerVars, sessionVars, cacheVars, backendVars>>

\* a call of to_response(app, data, plugins, request)
to_response(data, plugins) ==
    /\ phase = "registered"
    /\ Steps < MaxSteps
    /\ data.type = DataType(ResolvedResponseHandler.kind)
    /\ _resolved_response_handler' = ResolvedResponseHandler
    /\ Return("to_response", Response(_resolved_response_handler', data, plugins))
    /\ _filter_cookies_cache' =
           IF ResolvedResponseHandler.kind \in {"response_container", "response"}
           THEN LET key == CacheKey(ResolvedResponseHandler, data)
                IN  (key :> lru_cache_filter_cookies(key[1], key[2])) @@ _filter_cookies_cache
           ELSE _filter_cookies_cache
    /\ UNCHANGED <<ownership_layers, _resolved_before_request, _resolved_after_response,
                   epoch>>
    /\ UNCHANGED handlerVars
    /\ UNCHANGED <<sessionVars, backendVars>>

(***************************************************************************)
(* SessionMiddleware.                                                      *)
(***************************************************************************)
Connections == 1..NumConnections

\* the message type that accepts a websocket, taken for the one that triggers the store
WebsocketAccept == "websocket.accept"

HTTP_RESPONSE_START == "http.response.start"

\* the types of the messages an application sends in a scope of each type
MessageTypes ==
    [http |-> {HTTP_RESPONSE_START, "http.response.body"},
     websocket |-> {"websocket.accept", "websocket.send"}]

ScopeTypes == DOMAIN MessageTypes

\* the n-th message the application sends on its connection
Message(type, n) == [type |-> type, n |-> n, headers |-> {}]

\* the session data load_from_connection returns, and what the application may put
\* in scope["session"] afterwards
LoadedSessions == {"{}", "loaded"}

ApplicationSessions == {"replaced"}

\* one thing that happened on a connection
Event(ev, message, session) == [ev |-> ev, message |-> message, session |-> session]

\* no connection yet: no scope, __call__ not called
NoConnection ==
    [pc |-> "idle", scope |-> [type |-> "", session |-> None], message |-> None,
     events |-> <<>>]

\* the state of connection c with the event appended
Happens(c, ev, message, session) ==
    Append(connections[c].events, Event(ev, message, session))

\* the number of messages the application has sent on connection c
Sent(c) ==
    Cardinality({k \in DOMAIN connections[c].events :
                    connections[c].events[k].ev = "wrapped_send"})

\* SessionMiddleware.__call__(scope, receive, send) up to its first await: the
\* connection is made and backend.load_from_connection(connection) is called
SessionMiddleware__call__(c, scope_type) ==
    /\ connections[c].pc = "idle"
    /\ connections' = [connections EXCEPT
           ![c].pc = "load_from_connection",
           ![c].scope = [type |-> scope_type, session |-> None],
           ![c].events = Happens(c, "load_from_connection", None, None)]
    /\ UNCHANGED <<handlerVars, resolveVars, cacheVars, backendVars>>

\* load_from_connection returns data: scope["session"] = data, then
\* self.app(scope, receive, self.create_send_wrapper(connection)) is called
LoadReturns(c, data) ==
    /\ connections[c].pc = "load_from_connection"
    /\ LET scope == [connections[c].scope EXCEPT !.session = <<data>>]
       IN  connections' = [connections EXCEPT
               ![c].pc = "app",
               ![c].scope = scope,
               ![c].events = Happens(c, "load_from_connection returned", None, <<data>>)
                                 \o <<Event("app", None, scope.session)>>]
    /\ UNCHANGED <<handlerVars, resolveVars, cacheVars, backendVars>>

\* load_from_connection raises: the exception leaves __call__
LoadRaises(c) ==
    /\ connections[c].pc = "load_from_connection"
    /\ connections' = [connections EXCEPT
           ![c].pc = "raised",
           ![c].events = Happens(c, "load_from_connection raised", None, None)]
    /\ UNCHANGED <<handlerVars, resolveVars, cacheVars, backendVars>>

\* the application assigns scope["session"]
SetSession(c, data) ==
    /\ connections[c].pc = "app"
    /\ connections[c].scope.session # <<data>>
    /\ connections' = [connections EXCEPT
           ![c].scope.session = <<data>>,
           ![c].events = Happens(c, "scope session set", None, <<data>>)]
    /\ UNCHANGED <<handlerVars, resolveVars, cacheVars, backendVars>>

\* wrapped_send that forwards a message before it looks at its type
WrappedSendForwardingFirst(c, message) ==
    /\ connections[c].pc = "app"
    /\ Sent(c) < MaxMessages
    /\ message.n = Sent(c) + 1
    /\ message.type \in MessageTypes[connections[c].scope.type]
    /\ IF message.type # HTTP_RESPONSE_START
       THEN connections' = [connections EXCEPT
                ![c].events = Happens(c, "wrapped_send", <<message>>, None)
                                  \o <<Event("send", <<message>>, None)>>]
       ELSE connections' = [connections EXCEPT
                ![c].pc = "store_in_message",
                ![c].message = <<message>>,
                ![c].events = Happens(c, "wrapped_send", <<message>>, None)
                                  \o <<Event("send", <<message>>, None),
                                       Event("store_in_message", <<message>>,
                                             connections[c].scope.session)>>]
    /\ UNCHANGED <<handlerVars, resolveVars, cacheVars, backendVars>>

\* wrapped_send that hands every message to the backend
WrappedSendStoringAll(c, message) ==
    /\ connections[c].pc = "app"
    /\ Sent(c) < MaxMessages
    /\ message.n = Sent(c) + 1
    /\ message.type \in MessageTypes[connections[c].scope.type]
    /\ connections' = [connections EXCEPT
           ![c].pc = "store_in_message",
           ![c].message = <<message>>,
           ![c].events = Happens(c, "wrapped_send", <<message>>, None)
                             \o <<Event("store_in_message", <<message>>,
                                        connections[c].scope.session)>>]
    /\ UNCHANGED <<handlerVars, resolveVars, cacheVars, backendVars>>

\* wrapped_send of a wrapper that every connection shares: it reads the scope of the
\* connection the wrapper was first made for
WrappedSendOfFirstConnection(c, message) ==
    /\ connections[c].pc = "app"
    /\ Sent(c) < MaxMessages
    /\ message.n = Sent(c) + 1
    /\ message.type \in MessageTypes[connections[c].scope.type]
    /\ IF message.type # HTTP_RESPONSE_START
       THEN connections' = [connections EXCEPT
                ![c].events = Happens(c, "wrapped_send", <<message>>, None)
                                  \o <<Event("send", <<message>>, None)>>]
       ELSE connections' = [connections EXCEPT
                ![c].pc = "store_in_message",
                ![c].message = <<message>>,
                ![c].events = Happens(c, "wrapped_send", <<message>>, None)
                                  \o <<Event("store_in_message", <<message>>,
                                             connections[1].scope.session)>>]
    /\ UNCHANGED <<handlerVars, resolveVars, cacheVars, backendVars>>

\* wrapped_send(message), called by the application, up to its first await: a message
\* that is no response start is passed to connection.send; for a response start,
\* backend.store_in_message(scope_session, message, connection) is called
wrapped_send(c, message) ==
    /\ connections[c].pc = "app"
    /\ Sent(c) < MaxMessages
    /\ message.n = Sent(c) + 1
    /\ message.type \in MessageTypes[connections[c].scope.type]
    /\ IF message.type # HTTP_RESPONSE_START
       THEN connections' = [connections EXCEPT
                ![c].events = Happens(c, "wrapped_send", <<message>>, None)
                                  \o <<Event("send", <<message>>, None)>>]
       ELSE connections' = [connections EXCEPT
                ![c].pc = "store_in_message",
                ![c].message = <<message>>,
                ![c].events = Happens(c, "wrapped_send", <<message>>, None)
                                  \o <<Event("store_in_message", <<message>>,
                                             connections[c].scope.session)>>]
    /\ UNCHANGED <<handlerVars, resolveVars, cacheVars, backendVars>>

\* store_in_message returns, having added a header to the message or not; the message
\* is passed to connection.send and wrapped_send returns to the application
StoreReturns(c, set_cookie) ==
    /\ connections[c].pc = "store_in_message"
    /\ LET message == [connections[c].message[1] EXCEPT
                          !.headers = IF set_cookie THEN @ \cup {"set-cookie"} ELSE @]
       IN  connections' = [connections EXCEPT
               ![c].pc = "app",
               ![c].message = None,
               ![c].events = Happens(c, "store_in_message returned", <<message>>, None)
                                 \o <<Event("send", <<message>>, None)>>]
    /\ UNCHANGED <<handlerVars, resolveVars, cacheVars, backendVars>>

\* store_in_message raises and the exception is swallowed: the message is passed on
StoreRaisesSwallowed(c, caught) ==
    /\ connections[c].pc = "store_in_message"
    /\ connections' = [connections EXCEPT
           ![c].pc = "app",
           ![c].message = None,
           ![c].events = Happens(c, "store_in_message raised", connections[c].message, None)
                             \o <<Event("send", connections[c].message, None)>>]
    /\ UNCHANGED <<handlerVars, resolveVars, cacheVars, backendVars>>

\* store_in_message raises: the exception leaves wrapped_send, and the application
\* catches it or lets it leave __call__
StoreRaises(c, caught) ==
    /\ connections[c].pc = "store_in_message"
    /\ connections' = [connections EXCEPT
           ![c].pc = IF caught THEN "app" ELSE "raised",
           ![c].message = None,
           ![c].events = Happens(c, "store_in_message raised", connections[c].message, None)]
    /\ UNCHANGED <<handlerVars, resolveVars, cacheVars, backendVars>>

\* the application returns, and __call__ with it
AppReturns(c) ==
    /\ connections[c].pc = "app"
    /\ connections' = [connections EXCEPT
           ![c].pc = "returned",
           ![c].events = Happens(c, "returned", None, None)]
    /\ UNCHANGED <<handlerVars, resolveVars, cacheVars, backendVars>>

(***************************************************************************)
(* The server-side session store.                                          *)
(***************************************************************************)
\* the configuration of a backend: max_age, in ticks of the store's clock, and the
\* renew_on_access policy of the server-side backend
BaseBackendConfig == [max_age |-> MaxAge, renew_on_access |-> FALSE]

\* the configurations of the server-side backend
ServerSideSessionConfig ==
    [max_age : 1..MaxAge, renew_on_access : BOOLEAN]

\* the keys and the data of the sessions stored
Keys == {"foo", "bar"}

Data == {"d", "e"}

\* what a call of the backend is remembered by: its arguments, the time and the
\* configuration it was made at, and its result
BackendCall(key, data, result) ==
    [key |-> key, data |-> data, result |-> result, clock |-> clock, config |-> config]

\* the data stored under key, if it has not expired
Stored(key) ==
    IF key \in DOMAIN storage /\ clock < storage[key].expires
    THEN <<storage[key].data>>
    ELSE None

\* delete that empties the store
DeleteEverything(key) ==
    /\ Steps < MaxSteps
    /\ storage' = <<>>
    /\ Return("delete", BackendCall(key, None, None))
    /\ UNCHANGED <<clock, config>>
    /\ UNCHANGED <<ownership_layers, _resolved_before_request, _resolved_after_response,
                   _resolved_response_handler, epoch>>
    /\ UNCHANGED <<handlerVars, sessionVars, cacheVars>>

\* get that leaves the expiry as it is
GetWithoutRenewal(key) ==
    /\ Steps < MaxSteps
    /\ Return("get", BackendCall(key, None, Stored(key)))
    /\ UNCHANGED <<storage, clock, config>>
    /\ UNCHANGED <<ownership_layers, _resolved_before_request, _resolved_after_response,
                   _resolved_response_handler, epoch>>
    /\ UNCHANGED <<handlerVars, sessionVars, cacheVars>>

\* await backend.set(key, data): the data is stored under key, to expire max_age from now
set(key, data) ==
    /\ Steps < MaxSteps
    /\ storage' = [k \in DOMAIN storage \cup {key} |->
                       IF k = key
                       THEN [data |-> data, expires |-> clock + config.max_age]
                       ELSE storage[k]]
    /\ Return("set", BackendCall(key, <<data>>, None))
    /\ UNCHANGED <<clock, config>>
    /\ UNCHANGED <<ownership_layers, _resolved_before_request, _resolved_after_response,
                   _resolved_response_handler, epoch>>
    /\ UNCHANGED <<handlerVars, sessionVars, cacheVars>>

\* await backend.get(key): the data stored under key, or None when there is none or it
\* has expired; with renew_on_access, data that is returned expires max_age from now
get(key) ==
    /\ Steps < MaxSteps
    /\ Return("get", BackendCall(key, None, Stored(key)))
    /\ storage' = IF Stored(key) # None /\ config.renew_on_access
                  THEN [storage EXCEPT ![key].expires = clock + config.max_age]
                  ELSE storage
    /\ UNCHANGED <<clock, config>>
    /\ UNCHANGED <<ownership_layers, _resolved_before_request, _resolved_after_response,
                   _resolved_response_handler, epoch>>
    /\ UNCHANGED <<handlerVars, sessionVars, cacheVars>>

\* await backend.delete(key): nothing is stored under key any more
delete(key) ==
    /\ Steps < MaxSteps
    /\ storage' = [k \in DOMAIN storage \ {key} |-> storage[k]]
    /\ Return("delete", BackendCall(key, None, None))
    /\ UNCHANGED <<clock, config>>
    /\ UNCHANGED <<ownership_layers, _resolved_before_request, _resolved_after_response,
                   _resolved_response_handler, epoch>>
    /\ UNCHANGED <<handlerVars, sessionVars, cacheVars>>

\* config.max_age = max_age, assigned between two calls of the backend
SetMaxAge(max_age) ==
    /\ config.max_age # max_age
    /\ config' = [config EXCEPT !.max_age = max_age]
    /\ UNCHANGED <<storage, clock>>
    /\ UNCHANGED <<handlerVars, resolveVars, sessionVars, cacheVars>>

\* time passes
Tick ==
    /\ clock < MaxAge
    /\ clock' = clock + 1
    /\ UNCHANGED <<storage, config>>
    /\ UNCHANGED <<handlerVars, resolveVars, sessionVars, cacheVars>>

(***************************************************************************)
(* Specifications.                                                         *)
(***************************************************************************)
\* no handler yet: the attributes hold placeholders until __init__ sets them
NewHandler ==
    /\ args = NoArgs
    /\ phase = "new"
    /\ error = ""
    /\ http_methods = {}
    /\ status_code = 0
    /\ media_type = ""
    /\ signature = NoSignature
    /\ ownership_layers = [i \in Layers |-> DefaultLayer]
    /\ _resolved_before_request = Empty
    /\ _resolved_after_response = Empty
    /\ _resolved_response_handler = EmptyHandler
    /\ epoch = 0
    /\ returned = <<>>
    /\ connections = [c \in Connections |-> NoConnection]
    /\ _filter_cookies_cache = <<>>
    /\ storage = <<>>
    /\ clock = 0

\* a handler not yet constructed, no connection and an empty store
InitRegister == NewHandler /\ config = BaseBackendConfig

NextRegister ==
    \/ /\ phase = "new"
       /\ \E http_method \in MethodArgs, status_code_ \in StatusArgs, media_type_ \in MediaTypeArgs :
              __init__(http_method, status_code_, media_type_)
    \/ /\ phase = "constructed"
       /\ \E return_annotation \in ReturnAnnotations, parameters \in ParameterSets :
              __call__(return_annotation, parameters)

\* construction and registration of one handler
SpecRegister == InitRegister /\ [][NextRegister]_vars

\* the http_method arguments of route that make the handler accept HEAD
HeadMethodArgs ==
    {http_method \in MethodArgs :
        /\ TruthyMethods(http_method)
        /\ _normalize_http_method(http_method).error = ""
        /\ HEAD \in _normalize_http_method(http_method).output}

SemanticClasses == DOMAIN SemanticMethod

\* the http_method a caller passes to a semantic decorator: none, or some value
SemanticKwargs(cls) ==
    {None, <<None>>, <<One(Member(SemanticMethod[cls]))>>, <<One(Str(GET))>>}

NextDecorators ==
    \/ /\ phase = "new"
       /\ \E cls \in SemanticClasses, status_code_ \in StatusArgs, media_type_ \in MediaTypeArgs :
              \E kwargs \in SemanticKwargs(cls) :
                  Semantic__init__(cls, kwargs, status_code_, media_type_)
    \/ /\ phase = "new"
       /\ \E http_method \in HeadMethodArgs, status_code_ \in StatusArgs, media_type_ \in MediaTypeArgs :
              __init__(http_method, status_code_, media_type_)
    \/ /\ phase = "constructed"
       /\ \E return_annotation \in ReturnAnnotations, parameters \in ParameterSets :
              __call__(return_annotation, parameters)

\* construction by a semantic decorator, or by route for HEAD, and registration
SpecDecorators == InitRegister /\ [][NextDecorators]_vars

\* the return annotations of the registered handlers whose settings are resolved
ResolvedAnnotations ==
    {AnnDict, AnnFile, AnnResponse, AnnASGIApp, AnnCoroutineFunction, AnnContainerResponse}

\* a layer constructed with a response cookie a and a response header x-a
DeclaringLayer(i) ==
    [DefaultLayer EXCEPT !.response_cookies = List(<<Cookie("a", <<"cookie", i>>, FALSE)>>),
                         !.response_headers = List(<<ResponseHeader("x-a", <<"header", i>>, FALSE)>>)]

\* a handler registered by @route(http_method=HttpMethod.GET) on a function with the
\* return annotation, in the chain of layers
Registered(return_annotation, layers) ==
    /\ args = [cls |-> "HTTPRouteHandler", kwargs |-> None, http_method |-> One(Member(GET)),
               status_code |-> None, media_type |-> None]
    /\ phase = "registered"
    /\ error = ""
    /\ http_methods = _normalize_http_method(One(Member(GET))).output
    /\ status_code = _get_default_status_code(_normalize_http_method(One(Member(GET))).output)
    /\ media_type = InferredMediaType(return_annotation)
    /\ signature = [return_annotation |-> return_annotation, parameters |-> {}]
    /\ ownership_layers = layers
    /\ _resolved_before_request = Empty
    /\ _resolved_after_response = Empty
    /\ _resolved_response_handler = EmptyHandler
    /\ epoch = 0
    /\ returned = <<>>
    /\ connections = [c \in Connections |-> NoConnection]
    /\ _filter_cookies_cache = <<>>
    /\ storage = <<>>
    /\ clock = 0
    /\ config = BaseBackendConfig

\* the layers set nothing before the first step
InitResolve ==
    \E return_annotation \in ResolvedAnnotations :
        Registered(return_annotation, [i \in Layers |-> DefaultLayer])

ResolveAttributes == SingleValued \cup {"response_headers", "response_cookies"}

NextResolve ==
    \/ \E i \in Layers, attr \in ResolveAttributes :
           \E value \in AttributeValues(i, attr) : SetLayerAttribute(i, attr, value)
    \/ Call_resolve_response_class
    \/ resolve_before_request
    \/ resolve_after_response
    \/ resolve_response_handler
    \/ to_response(PlainDataFor(ResolvedResponseHandler.kind), NoPlugins)

\* hooks, response class and response handler of a registered handler
SpecResolve == InitResolve /\ [][NextResolve]_vars

\* the layers set nothing, or each declares a cookie and a header of the same name
InitMerge ==
    \/ Registered(AnnDict, [i \in Layers |-> DefaultLayer])
    \/ Registered(AnnDict, [i \in Layers |-> DeclaringLayer(i)])

MergeAttributes == {"response_class", "response_headers", "response_cookies", "cache_control", "etag"}

NextMerge ==
    \/ \E i \in Layers, attr \in MergeAttributes :
           \E value \in AttributeValues(i, attr) : SetLayerAttribute(i, attr, value)
    \/ Call_resolve_response_class
    \/ Call_resolve_response_headers
    \/ Call_resolve_response_cookies

\* response class, headers and cookies of a registered handler
SpecMerge == InitMerge /\ [][NextMerge]_vars

\* the response cookies and the headers a layer of a responding handler is built with
RespondCookies(i) ==
    {NoneType,
     List(<<Cookie("a", <<"cookie", i>>, TRUE)>>),
     List(<<Cookie("a", <<"cookie", i>>, FALSE)>>)}

RespondHeaders(i) ==
    {[response_headers |-> NoneType, cache_control |-> None],
     [response_headers |-> List(<<ResponseHeader("X-B", <<"header", i>>, FALSE)>>),
      cache_control |-> None],
     [response_headers |-> List(<<ResponseHeader("x-a", <<"header", i>>, TRUE)>>),
      cache_control |-> None],
     [response_headers |-> NoneType,
      cache_control |-> <<Header(CACHE_CONTROL_HEADER_NAME, <<"cache_control", i>>, TRUE)>>]}

\* the after_request hook of layer i: the innermost layer has one or not
RespondHooks(i) == IF i = NumLayers THEN {None, <<"after_request", i>>} ELSE {None}

RespondLayer(i) ==
    {[DefaultLayer EXCEPT !.response_cookies = cookies,
                          !.response_headers = headers.response_headers,
                          !.cache_control = headers.cache_control,
                          !.after_request = after_request] :
         cookies \in RespondCookies(i), headers \in RespondHeaders(i),
         after_request \in RespondHooks(i)}

\* the return annotations of the responding handlers, one a strategy
RespondAnnotations == {AnnDict, AnnFile, AnnResponse, AnnASGIApp}

\* a registered handler in a chain of layers built with cookies and headers, some of
\* them marked documentation_only
InitRespond ==
    \E return_annotation \in RespondAnnotations :
        \E layers \in [Layers -> UNION {RespondLayer(i) : i \in Layers}] :
            /\ \A i \in Layers : layers[i] \in RespondLayer(i)
            /\ Registered(return_annotation, layers)

NextRespond ==
    \E data \in DataFor(ResolvedResponseHandler.kind) : to_response(data, NoPlugins)

\* the responses of a registered handler
SpecRespond == InitRespond /\ [][NextRespond]_vars


\* the connection the middleware serves when connections are taken one at a time
OneConnection == {1}

NextSession ==
    \E c \in OneConnection :
        \/ \E scope_type \in ScopeTypes : SessionMiddleware__call__(c, scope_type)
        \/ \E data \in LoadedSessions : LoadReturns(c, data)
        \/ LoadRaises(c)
        \/ \E data \in ApplicationSessions : SetSession(c, data)
        \/ /\ connections[c].pc = "app"
           /\ \E type \in MessageTypes[connections[c].scope.type] :
                  wrapped_send(c, Message(type, Sent(c) + 1))
        \/ \E set_cookie \in BOOLEAN : StoreReturns(c, set_cookie)
        \/ \E caught \in BOOLEAN : StoreRaises(c, caught)
        \/ AppReturns(c)

\* the layered headers of the generic handlers: names that differ in case only
DataHeaders(i) ==
    {NoneType,
     List(<<ResponseHeader("X-B", <<"header", i>>, FALSE)>>),
     List(<<ResponseHeader("x-b", <<"header", i>>, FALSE)>>)}

DataLayer(i) ==
    {[DefaultLayer EXCEPT !.response_headers = headers] : headers \in DataHeaders(i)}

\* the return annotations of the generic handlers
DataAnnotations == {AnnDict, AnnDTO, AnnListDTO}

\* what a handler function of each of these annotations returns in the model
ReturnedValues(return_annotation) ==
    CASE return_annotation = AnnDTO ->
             {Single(MappingValue), Single(ModelInstance), Single(DTOInstance)}
      [] return_annotation = AnnListDTO ->
             {Sequence(<<>>),
              Sequence(<<MappingValue, DTOInstance>>),
              Sequence(<<DTOInstance, MappingValue>>),
              Sequence(<<ModelInstance, MappingValue>>),
              Sequence(<<DTOInstance, DTOInstance>>)}
      [] OTHER ->
             {Single(MappingValue), Single(ModelInstance),
              Sequence(<<ModelInstance, ModelInstance>>)}

InitData ==
    \E return_annotation \in DataAnnotations :
        \E layers \in [Layers -> UNION {DataLayer(i) : i \in Layers}] :
            /\ \A i \in Layers : layers[i] \in DataLayer(i)
            /\ Registered(return_annotation, layers)

NextData ==
    \E content \in ReturnedValues(signature.return_annotation), plugins \in Plugins :
        to_response(PlainData(content), plugins)

\* the responses of a registered handler of the generic-data strategy
SpecData == InitData /\ [][NextData]_vars

\* what is appended to the cookies and to the raw headers of a response
AppendedCookie == Cookie("appended", <<"response">>, FALSE)

AppendedHeader == [name |-> "x-appended", value |-> <<"response">>]

\* a layer with a cookie and a header, or with none
SharedLayer(i) ==
    {DefaultLayer,
     [DefaultLayer EXCEPT
          !.response_cookies = List(<<Cookie("a", <<"cookie", i>>, FALSE)>>),
          !.response_headers = List(<<ResponseHeader("X-B", <<"header", i>>, FALSE)>>)]}

SharedAnnotations == {AnnDict, AnnFile, AnnResponse}

InitShared ==
    \E return_annotation \in SharedAnnotations :
        \E layers \in [Layers -> UNION {SharedLayer(i) : i \in Layers}] :
            /\ \A i \in Layers : layers[i] \in SharedLayer(i)
            /\ Registered(return_annotation, layers)

NextShared ==
    \/ \E data \in DataFor(ResolvedResponseHandler.kind) : to_response(data, NoPlugins)
    \/ \E k \in DOMAIN returned : cookies_append(k, AppendedCookie)
    \/ \E k \in DOMAIN returned : raw_headers_append(k, AppendedHeader)

\* the responses of a registered handler, to whose lists the caller appends
SpecShared == InitShared /\ [][NextShared]_vars

InitBackend == NewHandler /\ config \in ServerSideSessionConfig

NextBackend ==
    \/ \E key \in Keys, data \in Data : set(key, data)
    \/ \E key \in Keys : get(key)
    \/ \E key \in Keys : delete(key)

\* calls of a server-side backend on several keys, no time passing
SpecBackend == InitBackend /\ [][NextBackend]_vars

NextExpiry ==
    \/ set("foo", "d")
    \/ get("foo")
    \/ \E max_age \in 1..MaxAge : SetMaxAge(max_age)
    \/ Tick

\* calls of a server-side backend on one key while time passes and max_age is assigned
SpecExpiry == InitBackend /\ [][NextExpiry]_vars

\* one connection passing through the SessionMiddleware
SpecSession == InitRegister /\ [][NextSession]_vars

\* the steps of several http connections, interleaved at every await of __call__ and
\* of wrapped_send, each application sending at most MaxConcurrentMessages messages
\* and still running
NextConcurrent ==
    \E c \in Connections :
        \/ SessionMiddleware__call__(c, "http")
        \/ \E data \in LoadedSessions : LoadReturns(c, data)
        \/ \E data \in ApplicationSessions : SetSession(c, data)
        \/ /\ connections[c].pc = "app"
           /\ Sent(c) < MaxConcurrentMessages
           /\ \E type \in MessageTypes[connections[c].scope.type] :
                  wrapped_send(c, Message(type, Sent(c) + 1))
        \/ StoreReturns(c, TRUE)

\* several connections passing through one SessionMiddleware at the same time
SpecConcurrent == InitRegister /\ [][NextConcurrent]_vars

(***************************************************************************)
(* Properties of construction and registration (SpecRegister).             *)
(***************************************************************************)
\* __init__ returned a handler
Created == phase \in {"constructed", "registered", "failed"}

\* __call__ has run on the handler
Called == phase \in {"registered", "failed"}

RejectedOtherwise ==
    \/ signature.return_annotation = Signature_empty
    \/ /\ "Redirect" \in signature.return_annotation.bases
       /\ status_code \notin REDIRECT_STATUS_CODES
    \/ "socket" \in signature.parameters
    \/ "data" \in signature.parameters /\ GET \in http_methods

\* C2: on a handler whose status code, given or defaulted, is 204, 304 or below 200,
\* registering a function whose return annotation is not None fails with a
\* configuration error, and a function annotated None is not rejected for its status
\* code; with any other status code the function is not rejected for it either
C2_NoBodyStatusNeedsNone ==
    Called =>
        LET nobody == status_code < 200 \/ status_code \in {204, 304}
            none == signature.return_annotation \in {AnnNone, AnnNoneStr}
        IN  /\ (nobody /\ ~none) =>
                   (phase = "failed" /\ error = ImproperlyConfiguredException)
            /\ (nobody /\ none /\ ~RejectedOtherwise) => (phase = "registered" /\ error = "")
            /\ (~nobody /\ ~RejectedOtherwise) => (phase = "registered" /\ error = "")

\* a function annotated str was rejected by a handler whose status code 204 is the
\* default of its method DELETE
C2_Witness ==
    /\ phase = "failed"
    /\ error = ImproperlyConfiguredException
    /\ args.status_code = None
    /\ status_code = 204
    /\ signature.return_annotation = AnnStr
    /\ signature.parameters = {}

\* every token of the http_method argument names a known method once upper-cased
AllKnown ==
    \A k \in DOMAIN args.http_method.items :
        upper(args.http_method.items[k].value) \in {GET, POST, DELETE, PATCH, PUT, HEAD}

\* the http_method argument is the empty str or the empty sequence
EmptyArgument == args.http_method \in {One(Str(<<>>)), Many(<<>>)}

\* the handler's methods are the upper-cased names of the tokens, a non-empty set of
\* known names in which repeated tokens and tokens differing in case collapse
MethodsAreUpperCasedNames ==
    /\ AllKnown
    /\ http_methods = {upper(args.http_method.items[k].value) :
                          k \in DOMAIN args.http_method.items}
    /\ http_methods # {}
    /\ http_methods \subseteq {GET, POST, DELETE, PATCH, PUT, HEAD}
    /\ args.http_method = Many(<<Str(GET), Str(<<"g", "e", "t">>)>>) => http_methods = {GET}

\* C3 as stated: for a token, an enum member or a sequence of them, the handler's
\* methods are the set of the upper-cased names (["GET", "get"] gives {"GET"}), a
\* non-empty set of known names; with any token that is not a known method the call
\* raises a validation error and no handler is created
C3_AsStated ==
    /\ Created => MethodsAreUpperCasedNames
    /\ (phase # "new" /\ ~AllKnown) =>
           (phase = "not_created" /\ error = ValidationException)

\* C3 as amended: the same for a non-empty argument; the empty str and the empty
\* sequence are rejected with a configuration error before they are normalized
C3_NormalizedMethods ==
    /\ Created => (~EmptyArgument /\ MethodsAreUpperCasedNames)
    /\ (phase # "new" /\ ~EmptyArgument /\ AllKnown) => Created
    /\ (phase # "new" /\ ~EmptyArgument /\ ~AllKnown) =>
           (phase = "not_created" /\ error = ValidationException /\ http_methods = {})
    /\ (phase # "new" /\ EmptyArgument) =>
           (phase = "not_created" /\ error = ImproperlyConfiguredException /\ http_methods = {})

\* the handler of http_method=["GET", "get"] has the one method GET
C3_Witness ==
    /\ phase = "constructed"
    /\ args.http_method = Many(<<Str(GET), Str(<<"g", "e", "t">>)>>)
    /\ http_methods = {GET}

(***************************************************************************)
(* Properties of the resolution (SpecResolve, SpecMerge).                  *)
(***************************************************************************)
Calls == DOMAIN returned

\* the attribute a method memoises its result in, the method's name when in none
Slot(op) == IF op = "to_response" THEN "resolve_response_handler" ELSE op

\* call k is the first call that resolves what its method returns
FirstCall(k) == \A j \in Calls : j < k => Slot(returned[j].op) # Slot(returned[k].op)

\* no layer attribute has been assigned since call k
Current(k) == returned[k].epoch = epoch

\* C4: the response handler is one of the four strategies, chosen by the return
\* annotation alone: a response container type gives the container strategy, otherwise
\* a Response type the prebuilt-response strategy, otherwise an async callable or
\* ASGIApp the raw ASGI strategy, and any other annotation the generic-data strategy,
\* whatever the layers set
C4_StrategyByAnnotation ==
    _resolved_response_handler # EmptyHandler =>
        LET annotation == signature.return_annotation
            container == "ResponseContainer" \in annotation.bases
            response == "Response" \in annotation.bases
            asgi == annotation.async_callable \/ annotation.name \in {"ASGIApp", "'ASGIApp'"}
            kind == _resolved_response_handler.kind
        IN  /\ kind \in {"response_container", "response", "generic_asgi", "data"}
            /\ container => kind = "response_container"
            /\ (~container /\ response) => kind = "response"
            /\ (~container /\ ~response /\ asgi) => kind = "generic_asgi"
            /\ (~container /\ ~response /\ ~asgi) => kind = "data"

\* the handler annotated Response, a class whose instances are async callables, got the
\* prebuilt-response strategy in a chain whose innermost layer sets an after_request hook
C4_Witness ==
    /\ signature.return_annotation = AnnResponse
    /\ _resolved_response_handler # EmptyHandler
    /\ _resolved_response_handler.kind = "response"
    /\ _resolved_response_handler.after_request = <<"after_request", NumLayers>>

Memoized == {"resolve_response_handler", "resolve_before_request", "resolve_after_response"}

\* C5: over any sequence of to_response and resolve_response_handler calls the response
\* handler is built once: a later call returns the handler the first call stored, and a
\* later response is built by it, whatever layer attribute was assigned in between; so
\* it is for resolve_before_request and resolve_after_response, also when the first
\* call resolved to None
C5_ResolvedOnce ==
    /\ \A j \in Calls, k \in Calls :
           j < k =>
               /\ (returned[j].op = returned[k].op /\ returned[j].op \in Memoized) =>
                      returned[k].value = returned[j].value
               /\ (returned[j].op = "to_response" /\ returned[k].op = "to_response") =>
                      returned[k].value =
                          Response(returned[j].value.response_handler, returned[k].value.data,
                                  returned[k].value.plugins)
               /\ (returned[j].op = "resolve_response_handler" /\ returned[k].op = "to_response") =>
                      returned[k].value = Response(returned[j].value, returned[k].value.data,
                                  returned[k].value.plugins)
               /\ (returned[j].op = "to_response" /\ returned[k].op = "resolve_response_handler") =>
                      returned[j].value = Response(returned[k].value, returned[j].value.data,
                                  returned[j].value.plugins)
    /\ \A k \in Calls :
           /\ returned[k].op = "resolve_response_handler" =>
                  returned[k].value = _resolved_response_handler
           /\ returned[k].op = "to_response" =>
                  returned[k].value = Response(_resolved_response_handler, returned[k].value.data,
                                  returned[k].value.plugins)
           /\ returned[k].op = "resolve_before_request" =>
                  returned[k].value = _resolved_before_request
           /\ returned[k].op = "resolve_after_response" =>
                  returned[k].value = _resolved_after_response

\* two responses were built, the second after the innermost layer was given an
\* after_request hook that the first did not see
C5_Witness ==
    /\ Len(returned) = 2
    /\ returned[1].op = "to_response"
    /\ returned[2].op = "to_response"
    /\ returned[1].epoch < returned[2].epoch
    /\ returned[2].value.response_handler.after_request = None
    /\ ownership_layers[NumLayers].after_request # None

\* the value of attr in the innermost layer that sets it, None when no layer does
InnermostValue(attr) ==
    IF \E i \in Layers : ownership_layers[i][attr] # None
    THEN LET i == CHOOSE i \in Layers :
                      /\ ownership_layers[i][attr] # None
                      /\ \A j \in Layers : j > i => ownership_layers[j][attr] = None
         IN  ownership_layers[i][attr]
    ELSE None

\* C10: response class, before_request, after_request and after_response resolve to
\* the value of the innermost layer that sets one, the handler's own before any
\* ancestor's; when no layer sets one a hook resolves to None and the response class
\* to Response
C10_InnermostWins ==
    \A k \in Calls :
        Current(k) =>
            /\ returned[k].op = "resolve_response_class" =>
                   returned[k].value = IF InnermostValue("response_class") = None
                                       THEN <<"Response">>
                                       ELSE InnermostValue("response_class")
            /\ (FirstCall(k) /\ returned[k].op = "resolve_before_request") =>
                   returned[k].value = InnermostValue("before_request")
            /\ (FirstCall(k) /\ returned[k].op = "resolve_after_response") =>
                   returned[k].value = InnermostValue("after_response")
            /\ (FirstCall(k) /\ returned[k].op = "resolve_response_handler") =>
                   returned[k].value.after_request = InnermostValue("after_request")
            /\ (FirstCall(k) /\ returned[k].op = "to_response") =>
                   returned[k].value.response_handler.after_request = InnermostValue("after_request")

\* two layers set a before_request hook and the first resolution gave the inner one
C10_Witness ==
    /\ Len(returned) = 1
    /\ Current(1)
    /\ returned[1].op = "resolve_before_request"
    /\ ownership_layers[NumLayers - 1].before_request # None
    /\ ownership_layers[NumLayers].before_request # None
    /\ returned[1].value = <<"before_request", NumLayers>>

Unmemoized == {"resolve_response_class", "resolve_response_headers", "resolve_response_cookies"}

\* C6 as stated: the results of resolve_response_class, resolve_response_headers and
\* resolve_response_cookies are cached after the first computation, so a later call
\* returns what the first call returned even when a layer's setting has changed since
C6_CachedAfterFirstCall ==
    \A j \in Calls, k \in Calls :
        (j < k /\ returned[j].op = returned[k].op /\ returned[j].op \in Unmemoized) =>
            returned[k].value = returned[j].value

ItemName(x, k) == IF x.type = "dict" THEN x.items[k][1] ELSE x.items[k].name

ItemHeader(x, k) ==
    IF x.type = "dict"
    THEN [name |-> x.items[k][1], value |-> x.items[k][2], documentation_only |-> FALSE]
    ELSE x.items[k]

\* the field of layer i (cache_control or etag) that gives the header name, if any
FieldFor(i, name) ==
    IF name = "cache-control" THEN ownership_layers[i].cache_control
    ELSE IF name = "etag" THEN ownership_layers[i].etag
    ELSE None

\* layer i defines a header called name, in its response_headers or by a field
DefinesHeader(i, name) ==
    \/ \E k \in DOMAIN ownership_layers[i].response_headers.items :
           ItemName(ownership_layers[i].response_headers, k) = name
    \/ FieldFor(i, name) # None

\* the header called name that layer i defines: the field's when there is one, else
\* the last of its response_headers
HeaderOfLayer(i, name) ==
    IF FieldFor(i, name) # None
    THEN [name |-> name, value |-> FieldFor(i, name)[1].to_header,
          documentation_only |-> FieldFor(i, name)[1].documentation_only]
    ELSE LET x == ownership_layers[i].response_headers
             k == CHOOSE k \in DOMAIN x.items :
                      /\ ItemName(x, k) = name
                      /\ \A m \in DOMAIN x.items : m > k => ItemName(x, m) # name
         IN  ItemHeader(x, k)

HeaderNames == {"x-a", "cache-control", "etag"}

\* C8: resolve_response_headers returns at most one header a name, that of the
\* innermost layer defining the name; a layer's cache_control or etag gives a header
\* that replaces one of the same name of the layer's response_headers and of any outer
\* layer, and is replaced by one an inner layer defines
C8_InnermostHeader ==
    \A c \in Calls :
        (returned[c].op = "resolve_response_headers" /\ Current(c)) =>
            /\ \A g \in returned[c].value, h \in returned[c].value : g.name = h.name => g = h
            /\ \A h \in returned[c].value : \E i \in Layers : DefinesHeader(i, h.name)
            /\ \A name \in HeaderNames, i \in Layers :
                   (DefinesHeader(i, name) /\ \A j \in Layers : j > i => ~DefinesHeader(j, name)) =>
                       HeaderOfLayer(i, name) \in returned[c].value

\* an outer layer sets cache_control, the innermost a response header cache-control,
\* and the innermost layer's header is the one returned
C8_Witness ==
    /\ Len(returned) = 1
    /\ returned[1].op = "resolve_response_headers"
    /\ Current(1)
    /\ ownership_layers[NumLayers - 1].cache_control # None
    /\ ownership_layers[NumLayers].cache_control = None
    /\ ResponseHeader("cache-control", <<"header", NumLayers>>, FALSE) \in returned[1].value

\* the key and the cookie of item k of a layer's response_cookies x
ItemKey(x, k) == IF x.type = "dict" THEN x.items[k][1] ELSE x.items[k].key

ItemCookie(x, k) ==
    IF x.type = "dict"
    THEN [key |-> x.items[k][1], value |-> x.items[k][2], documentation_only |-> FALSE]
    ELSE x.items[k]

DefinesCookie(i, key) ==
    \E k \in DOMAIN ownership_layers[i].response_cookies.items :
        ItemKey(ownership_layers[i].response_cookies, k) = key

\* the first cookie of that key in layer i's response_cookies
CookieOfLayer(i, key) ==
    LET x == ownership_layers[i].response_cookies
        k == CHOOSE k \in DOMAIN x.items :
                 /\ ItemKey(x, k) = key
                 /\ \A m \in DOMAIN x.items : m < k => ItemKey(x, m) # key
    IN  ItemCookie(x, k)

CookieKeys == {"a", "b"}

\* C9: resolve_response_cookies returns at most one cookie a key, and of the cookies
\* of one key that several layers define it keeps the innermost layer's: the handler's
\* own before a controller's, a router's or the app's
C9_InnermostCookie ==
    \A c \in Calls :
        (returned[c].op = "resolve_response_cookies" /\ Current(c)) =>
            /\ \A g \in returned[c].value, h \in returned[c].value : g.key = h.key => g = h
            /\ \A h \in returned[c].value : \E i \in Layers : DefinesCookie(i, h.key)
            /\ \A key \in CookieKeys, i \in Layers :
                   (DefinesCookie(i, key) /\ \A j \in Layers : j > i => ~DefinesCookie(j, key)) =>
                       CookieOfLayer(i, key) \in returned[c].value

\* every layer declares a cookie a and the innermost layer's is the one returned
C9_Witness ==
    /\ Len(returned) = 1
    /\ returned[1].op = "resolve_response_cookies"
    /\ Current(1)
    /\ \A i \in Layers : DefinesCookie(i, "a")
    /\ returned[1].value = {Cookie("a", <<"cookie", NumLayers>>, FALSE)}

(***************************************************************************)
(* Properties of the responses (SpecRespond).                              *)
(***************************************************************************)
\* the cookies and the names of the headers a response of to_response carries, and
\* the cookies passed to set_cookie
SentCookies(r) ==
    IF "cookies" \in DOMAIN r THEN r.cookies
    ELSE IF "set_cookie" \in DOMAIN r THEN r.set_cookie
    ELSE {x.cookie : x \in {y \in r.raw_headers : "cookie" \in DOMAIN y}}

\* the values of the headers a response of to_response carries
SentHeaderValues(r) ==
    IF "raw_headers" \in DOMAIN r
    THEN {x.value : x \in {y \in r.raw_headers : "value" \in DOMAIN y}}
    ELSE IF "headers" \in DOMAIN r THEN {r.headers[name] : name \in DOMAIN r.headers}
    ELSE {}

\* the values of the headers a layer marks documentation-only, in its
\* response_headers or by its cache_control or etag
DocumentationOnlyHeaderValues ==
    UNION {{ItemHeader(ownership_layers[i].response_headers, k).value :
               k \in {m \in DOMAIN ownership_layers[i].response_headers.items :
                         ItemHeader(ownership_layers[i].response_headers, m).documentation_only}}
           \cup {FieldFor(i, name)[1].to_header :
                    name \in {n \in HeaderNames : /\ FieldFor(i, n) # None
                                                  /\ FieldFor(i, n)[1].documentation_only}} :
           i \in Layers}

\* C11 as stated: in each of the four strategies no cookie marked documentation-only
\* is in the response's cookies or raw headers or is passed to set_cookie of a raw
\* ASGI application, and no header marked documentation-only is among the raw header
\* pairs or in the header mapping given to a response container
C11_DocumentationOnlyNeverSent ==
    \A k \in Calls :
        returned[k].op = "to_response" =>
            /\ \A c \in SentCookies(returned[k].value.response) : ~c.documentation_only
            /\ SentHeaderValues(returned[k].value.response) \cap DocumentationOnlyHeaderValues = {}

\* C11 without the raw ASGI strategy: a response container, a Response and a response
\* built from data carry no cookie and no header marked documentation-only
C11_DocumentationOnlyFiltered ==
    \A k \in Calls :
        (returned[k].op = "to_response" /\ returned[k].value.response_handler.kind # "generic_asgi") =>
            /\ \A c \in SentCookies(returned[k].value.response) : ~c.documentation_only
            /\ SentHeaderValues(returned[k].value.response) \cap DocumentationOnlyHeaderValues = {}

(***************************************************************************)
(* Properties of registration (SpecDecorators, SpecRegister).              *)
(***************************************************************************)
\* the return annotation is File, FileResponse or a subclass of either
FileAnnotation ==
    signature.return_annotation \in {AnnFile, AnnFileResponse, AnnContainerResponse}

\* the return annotation is Redirect or a subclass of it
RedirectAnnotation == signature.return_annotation \in {AnnRedirect, AnnRedirectSubclass}

\* the handler's status code is one that carries no body
NoBody == status_code < 200 \/ status_code \in {204, 304}

\* the function is rejected for its status code: no body, and an annotation not None
RejectedForNoBody == NoBody /\ signature.return_annotation \notin {AnnNone, AnnNoneStr}

\* C12 as stated: a handler that accepts HEAD, declared by the head decorator or by
\* route with http_method HEAD, cannot be registered with a return annotation other
\* than None or a file type; the registration fails with a configuration error
C12_HeadNeedsNoneOrFile ==
    (/\ Called
     /\ HEAD \in http_methods
     /\ signature.return_annotation \notin {AnnNone, AnnNoneStr, AnnFileStr}
     /\ ~FileAnnotation) =>
        (phase = "failed" /\ error = ImproperlyConfiguredException)

C14_FileNeverJsonOrHtml ==
    (phase = "registered" /\ FileAnnotation) =>
        media_type \notin {MediaType_JSON, MediaType_HTML}

\* C15: a semantic decorator creates a handler whose methods are exactly the
\* decorator's method, and called with an http_method, whatever its value, it fails
\* with a configuration error and creates no handler
C15_SemanticDecorators ==
    (phase # "new" /\ args.cls \in SemanticClasses) =>
        /\ args.kwargs = None => (Created /\ http_methods = {SemanticMethod[args.cls]})
        /\ args.kwargs # None =>
               (phase = "not_created" /\ error = ImproperlyConfiguredException)

\* get was called with http_method=HttpMethod.GET, its own method, and failed
C15_Witness ==
    /\ args.cls = "get"
    /\ args.kwargs = <<One(Member(GET))>>
    /\ phase = "not_created"
    /\ error = ImproperlyConfiguredException

RejectedBeforeParameters ==
    \/ signature.return_annotation = Signature_empty
    \/ RejectedForNoBody
    \/ RedirectAnnotation /\ status_code \notin {301, 302, 303, 307, 308}

Positions(c, ev) ==
    {k \in DOMAIN connections[c].events : connections[c].events[k].ev = ev}

\* C18: on a connection, load_from_connection has returned and its result is in the
\* scope under session when the wrapped application is called, and a response start
\* message is passed to the real send only after store_in_message has returned for it
C18_LoadThenAppStoreThenSend ==
    \A c \in Connections :
        LET events == connections[c].events
        IN  /\ \A k \in Positions(c, "app") :
                   /\ k > 1
                   /\ events[k - 1].ev = "load_from_connection returned"
                   /\ events[k].session = events[k - 1].session
                   /\ events[k].session # None
            /\ \A k \in Positions(c, "send") :
                   events[k].message[1].type = HTTP_RESPONSE_START =>
                       \E j \in Positions(c, "store_in_message returned") :
                           /\ j < k
                           /\ events[j].message[1].n = events[k].message[1].n

\* a session was loaded, the application was called and sent a response start, the
\* backend stored the session in it and the message reached the real send
C18_Witness ==
    \E k \in Positions(1, "send") :
        /\ connections[1].events[k].message[1].type = HTTP_RESPONSE_START
        /\ "set-cookie" \in connections[1].events[k].message[1].headers
        /\ Positions(1, "app") # {}

\* C19 as stated: whatever messages the application sends on a connection,
\* store_in_message is called at most once, for the first response start message
C19_StoredAtMostOnce ==
    \A c \in Connections : Cardinality(Positions(c, "store_in_message")) <= 1

\* no call of the backend has raised on connection c
NoBackendError(c) ==
    /\ Positions(c, "load_from_connection raised") = {}
    /\ Positions(c, "store_in_message raised") = {}

\* C20: when the backend raises no error, each message the application sends through
\* wrapped_send reaches the real send once, in the order sent; a message that is no
\* response start reaches it as it was sent, with no call of the backend for it
C20_ForwardedOnceInOrder ==
    \A c \in Connections :
        NoBackendError(c) =>
            LET events == connections[c].events
            IN  /\ \A k \in Positions(c, "wrapped_send") :
                       LET forwarded == {j \in Positions(c, "send") :
                                            events[j].message[1].n = events[k].message[1].n}
                       IN  /\ Cardinality(forwarded) <= 1
                           /\ \A j \in forwarded : j > k
                           /\ forwarded = {} =>
                                  /\ connections[c].pc = "store_in_message"
                                  /\ connections[c].message = events[k].message
                           /\ events[k].message[1].type # HTTP_RESPONSE_START =>
                                  /\ k + 1 \in forwarded
                                  /\ events[k + 1].message = events[k].message
                /\ \A j \in Positions(c, "send") :
                       \E k \in Positions(c, "wrapped_send") :
                           events[k].message[1].n = events[j].message[1].n
                /\ \A i \in Positions(c, "send"), j \in Positions(c, "send") :
                       i < j => events[i].message[1].n < events[j].message[1].n

\* the application sent a response start and then a body, and both reached the real
\* send, the body as it was sent
C20_Witness ==
    /\ NoBackendError(1)
    /\ Cardinality(Positions(1, "send")) = 2
    /\ \E j \in Positions(1, "send") :
           connections[1].events[j].message = <<Message("http.response.body", 2)>>

\* C21: an error of the backend is neither retried nor swallowed: when
\* load_from_connection raises, the error leaves __call__, the application is not
\* called and no message reaches the real send; when store_in_message raises, the
\* error leaves wrapped_send to the sender of the response start, store_in_message is
\* not called again for that message and the message does not reach the real send
C21_BackendErrorsPropagate ==
    \A c \in Connections :
        LET events == connections[c].events
        IN  /\ Positions(c, "load_from_connection raised") # {} =>
                   /\ connections[c].pc = "raised"
                   /\ Cardinality(Positions(c, "load_from_connection")) = 1
                   /\ Positions(c, "app") = {}
                   /\ Positions(c, "send") = {}
            /\ \A k \in Positions(c, "store_in_message raised") :
                   /\ ~\E j \in Positions(c, "send") :
                          events[j].message[1].n = events[k].message[1].n
                   /\ Cardinality({j \in Positions(c, "store_in_message") :
                                      events[j].message[1].n = events[k].message[1].n}) = 1
                   /\ k = Len(events) => (/\ connections[c].pc \in {"app", "raised"}
                                          /\ connections[c].message = None)

\* store_in_message raised for a response start and the error left __call__, no
\* message having reached the real send
C21_Witness ==
    /\ connections[1].pc = "raised"
    /\ Positions(1, "store_in_message raised") # {}
    /\ Positions(1, "send") = {}

\* C29: in a websocket scope the session is loaded before the application is called,
\* and store_in_message is never called, whatever the application sends and whatever
\* it puts in scope["session"]: only a message of type http.response.start triggers it
C29_WebsocketNeverStored ==
    \A c \in Connections :
        connections[c].scope.type = "websocket" =>
            /\ Positions(c, "store_in_message") = {}
            /\ connections[c].pc # "store_in_message"
            /\ \A k \in Positions(c, "app") :
                   \E j \in Positions(c, "load_from_connection returned") : j < k

\* a websocket connection ended, whose application changed the session and sent messages
C29_Witness ==
    /\ connections[1].scope.type = "websocket"
    /\ connections[1].pc = "returned"
    /\ connections[1].scope.session \in {<<data>> : data \in ApplicationSessions}
    /\ Cardinality(Positions(1, "send")) >= 2
    /\ \E k \in Positions(1, "send") :
           connections[1].events[k].message[1].type = "websocket.accept"

\* the value of scope["session"] of connection c when the k-th event happened
SessionAt(c, k) ==
    LET events == connections[c].events
        assigned == {j \in 1..(k - 1) :
                        events[j].ev \in {"load_from_connection returned",
                                          "scope session set"}}
    IN  IF assigned = {} THEN None
        ELSE events[CHOOSE j \in assigned : \A i \in assigned : i <= j].session

\* C28: with several connections interleaved at every await, each call of
\* store_in_message gets the value scope["session"] of its own connection has at the
\* moment the response start is sent, and the message sent on that connection
C28_OwnSessionAndMessage ==
    \A c \in Connections :
        \A k \in Positions(c, "store_in_message") :
            LET events == connections[c].events
            IN  /\ events[k].session = SessionAt(c, k)
                /\ events[k - 1].ev = "wrapped_send"
                /\ events[k].message = events[k - 1].message
                /\ events[k].message[1].type = HTTP_RESPONSE_START

\* two connections in flight with different sessions: the second sends its response
\* start while the first is still waiting for its backend to store
C28_Witness ==
    /\ connections[1].pc = "store_in_message"
    /\ connections[2].pc = "store_in_message"
    /\ connections[1].scope.session # connections[2].scope.session
    /\ Positions(2, "scope session set") # {}

\* the calls of to_response answered by the strategy kind
RespondedBy(kind) ==
    {k \in DOMAIN returned : /\ returned[k].op = "to_response"
                             /\ returned[k].value.response_handler.kind = kind}

\* the resolved layered headers that are sent, and the value of the one called name
LayeredHeaders == {header \in resolve_response_headers(ownership_layers) :
                      ~header.documentation_only}

LayeredHeaderValue(name) == (CHOOSE header \in LayeredHeaders : header.name = name).value

\* the value to_response returns for the response it built: the result of the
\* resolved after_request hook if there is one
ReturnedFor(response) ==
    IF ResolveHook(ownership_layers, "after_request") # None
    THEN [after_request |-> ResolveHook(ownership_layers, "after_request"),
          response |-> response]
    ELSE response

C25_PrebuiltResponse ==
    \A k \in RespondedBy("response") :
        LET data == returned[k].value.data
            response == returned[k].value.response
        IN  /\ DOMAIN response = DOMAIN data
            /\ \A field \in DOMAIN data \ {"cookies"} : response[field] = data[field]
            /\ response.cookies = _filter_cookies(frozenset(data.cookies),
                                                  resolve_response_cookies(ownership_layers))
            /\ returned[k].value.returns = ReturnedFor(response)

\* a prebuilt response with headers and cookies of its own answered in a chain that
\* resolves a header to send, a cookie and an after_request hook
C25_Witness ==
    \E k \in RespondedBy("response") :
        /\ LayeredHeaders # {}
        /\ DOMAIN returned[k].value.data.headers # {}
        /\ returned[k].value.data.cookies # <<>>
        /\ returned[k].value.response.cookies # frozenset(returned[k].value.data.cookies)
        /\ returned[k].value.returns # returned[k].value.response

\* the header pairs of a response of the generic-data strategy, cookies apart
HeaderPairs(response) == {pair \in response.raw_headers : "value" \in DOMAIN pair}

\* C30 as stated: the header pairs of a response of the generic-data strategy hold at
\* most one pair for a lower-cased header name
C30_AsStated ==
    \A k \in RespondedBy("data") :
        \A p, q \in HeaderPairs(returned[k].value.response) : p.name = q.name => p = q

\* the content of the response of the k-th call, and what the handler function returned
ContentOf(k) == returned[k].value.response.content

ReturnedContent(k) == returned[k].value.data.content

\* C26 as stated: under a DTO annotation the content of the response is one DTO
\* instance; under an annotation of an iterable of a DTO every element of the content
\* is a DTO instance, whatever the order of the mappings, model instances and DTO
\* instances returned, and the elements that were DTO instances are the ones returned;
\* under neither annotation is a value normalized by a plugin
C26_AsStated ==
    \A k \in RespondedBy("data") :
        LET return_annotation == returned[k].value.response_handler.return_annotation
        IN  /\ is_class_and_subclass(return_annotation, "DTO") =>
                   IsInstance(ContentOf(k), "DTO")
            /\ annotation_is_iterable_of_type(return_annotation, "DTO") =>
                   /\ ContentOf(k).many
                   /\ Len(ContentOf(k).items) = Len(ReturnedContent(k).items)
                   /\ \A i \in DOMAIN ContentOf(k).items :
                          /\ ContentOf(k).items[i].class = "DTO"
                          /\ ReturnedContent(k).items[i].class = "DTO" =>
                                 ContentOf(k).items[i] = ReturnedContent(k).items[i]
            /\ (\/ is_class_and_subclass(return_annotation, "DTO")
                \/ annotation_is_iterable_of_type(return_annotation, "DTO")) =>
                   ContentOf(k) # _normalize_response_data(ReturnedContent(k),
                                                           returned[k].value.plugins)
                       \/ ContentOf(k) = ReturnedContent(k)

\* C27 as stated: a response shares no list with another: whatever was appended to the
\* cookies or the raw headers of the responses returned before, the cookies of a
\* response are the filtered union of its own and the layered cookies, and its raw
\* headers are the layered headers and cookies
C27_AsStated ==
    /\ \A k \in RespondedBy("response_container") \cup RespondedBy("response") :
           returned[k].value.response.cookies =
               _filter_cookies(frozenset(returned[k].value.data.cookies),
                               returned[k].value.response_handler.cookies)
    /\ \A k \in RespondedBy("data") :
           returned[k].value.response.raw_headers =
               RawHeaders(returned[k].value.response_handler.headers,
                          returned[k].value.response_handler.cookies)

\* the calls of the backend made so far, and the last index of a set
BackendCalls(op) == {k \in DOMAIN returned : returned[k].op = op}

Last(indices) == IF indices = {} THEN 0 ELSE CHOOSE j \in indices : \A i \in indices : i <= j

\* the last set or delete of key before the k-th call, 0 if there is none
LastOn(key, k) ==
    Last({j \in BackendCalls("set") \cup BackendCalls("delete") :
             j < k /\ returned[j].value.key = key})

\* the data a get of key returns as the k-th call when nothing has expired
Expected(key, k) ==
    IF LastOn(key, k) = 0 \/ returned[LastOn(key, k)].op = "delete"
    THEN None
    ELSE returned[LastOn(key, k)].value.data

\* C22: get(k) returns the data of the last set(k, d), whatever was set or deleted
\* under other keys since, and no data after delete(k); delete(k) of a key that is
\* absent or deleted already changes nothing, for that key or another
C22_SetGetDelete ==
    /\ \A k \in BackendCalls("get") :
           returned[k].value.result = Expected(returned[k].value.key, k)
    /\ \A key \in Keys : Stored(key) = Expected(key, Len(returned) + 1)

\* bar, never set, was deleted after foo was set, and get(foo) returned foo's data
C22_Witness ==
    /\ Len(returned) = 3
    /\ returned[1].op = "set" /\ returned[1].value.key = "foo"
    /\ returned[2].op = "delete" /\ returned[2].value.key = "bar"
    /\ returned[3].op = "get" /\ returned[3].value.key = "foo"
    /\ returned[3].value.result = returned[1].value.data

\* the calls that give the entry a new expiry: set, and with renew_on_access a get
\* that returned data
Renewals(k) ==
    {j \in DOMAIN returned :
        /\ j < k
        /\ \/ returned[j].op = "set"
           \/ /\ returned[j].op = "get"
              /\ returned[j].value.result # None
              /\ returned[j].value.config.renew_on_access}

\* the time the entry expires at when the k-th call is made: max_age, as configured
\* when the last of these calls was made, after that call
ExpiresAt(k) ==
    returned[Last(Renewals(k))].value.clock + returned[Last(Renewals(k))].value.config.max_age

\* C23: get returns no data once max_age has passed since the set and since the last
\* get that renewed the entry; with renew_on_access a get that returns data has the
\* entry expire max_age, as configured at the time of that get, later, and until then
\* get returns the data
C23_ExpiryAndRenewal ==
    \A k \in BackendCalls("get") :
        returned[k].value.result =
            IF BackendCalls("set") \cap 1..(k - 1) # {} /\ returned[k].value.clock < ExpiresAt(k)
            THEN returned[Last(BackendCalls("set") \cap 1..(k - 1))].value.data
            ELSE None

\* with renew_on_access, max_age was raised after the set, a get was made before the
\* expiry and a second get, made after the time the entry was to expire at when it was
\* set, returned the data
C23_Witness ==
    /\ Len(returned) = 3
    /\ returned[1].op = "set" /\ returned[2].op = "get" /\ returned[3].op = "get"
    /\ returned[2].value.config.renew_on_access
    /\ returned[2].value.config.max_age > returned[1].value.config.max_age
    /\ returned[2].value.clock < returned[1].value.clock + returned[1].value.config.max_age
    /\ returned[3].value.clock >= returned[1].value.clock + returned[1].value.config.max_age
    /\ returned[3].value.result = returned[1].value.data

\* without renew_on_access a get made once max_age has passed returned no data
C23_Expired ==
    /\ Len(returned) = 2
    /\ returned[1].op = "set" /\ returned[2].op = "get"
    /\ ~returned[2].value.config.renew_on_access
    /\ returned[2].value.clock = returned[1].value.clock + returned[1].value.config.max_age
    /\ returned[2].value.result = None

====
